---------------------------- MODULE Spec2Model ----------------------------
(***************************************************************************)
(* Matefish mate solver: root preparation (Search::init), the worker pool  *)
(* running the iterative-deepening alpha/beta mate search (Thread::search, *)
(* search), the tablebase walker (syzygy_search) and the fan-in of         *)
(* MainThread::search.                                                     *)
(*                                                                         *)
(* The chess rule engine and the tablebase probe are external: a position  *)
(* is a finite value that lists its legal moves in generation order, each  *)
(* move carrying the facts the search asks the rule engine for and the     *)
(* position it leads to.                                                   *)
(***************************************************************************)
EXTENDS Integers, Sequences, FiniteSets, TLC

(***************************************************************************)
(* Values (types.h)                                                        *)
(***************************************************************************)
VALUE_ZERO == 0

VALUE_DRAW == 0

VALUE_MATE == 32000

VALUE_INFINITE == 32001

MAX_PLY == 246

VALUE_MATE_IN_MAX_PLY == VALUE_MATE - MAX_PLY

mate_in(ply) == VALUE_MATE - ply

mated_in(ply) == -VALUE_MATE + ply

Max(a, b) == IF a >= b THEN a ELSE b

\* the two Moves that are no move of any position (types.h)
MOVE_NONE == 0

MOVE_NULL == 65

\* types.h; the reports of this model print in centipawns the value
\* VALUE_DRAW only, whose quotient is 0 whatever the pawn value
PawnValueEg == 208

\* integer division of C++: the quotient is truncated towards zero
TruncDiv(a, b) == IF a >= 0 THEN a \div b ELSE -((-a) \div b)

(***************************************************************************)
(* UCI::value and UCI::move: the text printed for a Value and for a Move.  *)
(* UCI::value gives the tuple of its two tokens; the coordinate notation   *)
(* of move i of a position is the token Coords[i].                         *)
(***************************************************************************)
Coords == <<"m1", "m2", "m3", "m4", "m5", "m6", "m7">>

UCI_value(v) ==
    IF (IF v < 0 THEN -v ELSE v) < VALUE_MATE - MAX_PLY
    THEN <<"cp", TruncDiv(v * 100, PawnValueEg)>>
    ELSE <<"mate", TruncDiv(IF v > 0 THEN VALUE_MATE - v + 1 ELSE -VALUE_MATE - v, 2)>>

UCI_move(m) ==
    IF m = MOVE_NONE THEN "(none)"
    ELSE IF m = MOVE_NULL THEN "0000"
    ELSE Coords[m]

(***************************************************************************)
(* Bounds of the model                                                     *)
(***************************************************************************)
\* largest pool size (Threads option)
MaxThreads == 2

\* largest mate limit handed to go
MaxMate == 2

\* largest mate limit handed to go on the roots with long lines (the skips of
\* the first iterations need a target depth of 11)
DeepMate == 6

\* the stop flag may become visible to a running search() after 0..MaxFuel
\* node entries
MaxFuel == 2

\* "the stop flag never becomes visible during this search() call"
NoStop == MaxFuel + 1

\* largest mate limit handed to the Proof-Number Search
PnsMaxMate == 3

\* the nodes the PNS arena holds (nodeCount, which the PNS Hash option sets): an
\* arena that the trees fill, and one that they do not
SmallArena == 103

LargeArena == 200

(***************************************************************************)
(* Positions and moves (the Move Oracle).                                  *)
(*   chk    side to move is in check            pos.checkers()             *)
(*   draw   pos.is_draw(ply)                                               *)
(*   bare   side to move has only its king      count<ALL_PIECES>(us) == 1 *)
(*   wdl    what TB::probe_wdl gives for the position: "fail" when the     *)
(*          probe is not made or fails, else the WDLScore of the side to   *)
(*          move ("loss", "blessed_loss", "draw", "cursed_win", "win")     *)
(*   guard  side to move owns > 3 bishops, all on the colour complex the   *)
(*          opponent does not occupy (position part of the bishop guard)   *)
(*   basic  is_basic_mate(pos)                                             *)
(*   tb     the tablebase oracle covers the position (root_probe succeeds) *)
(*   moves  MoveList<LEGAL>(pos), generation order                         *)
(* A move: id (the Move), chk (gives_check), victim (type of the captured  *)
(* piece, 0 = none), bonus (the geometry terms of the ranker that the      *)
(* abstraction does not resolve), reach (the moved piece attacks a         *)
(* checking square from its target), bishop / king (moved piece), tbr (the *)
(* rank the tablebase oracle gives the move), to (position after do_move). *)
(***************************************************************************)
Pos(chk, moves) ==
    [chk |-> chk, draw |-> FALSE, bare |-> FALSE, wdl |-> "fail",
     guard |-> FALSE, basic |-> FALSE, tb |-> FALSE, moves |-> moves]

\* the tablebase probe of search(): a verdict that is not a loss of the
\* defender (odd ply) or not a win of the attacker (even ply) ends the node
TbCut(pos, ply) ==
    /\ pos.wdl # "fail"
    /\ IF ply % 2 = 1
       THEN pos.wdl \notin {"loss", "blessed_loss"}
       ELSE pos.wdl \notin {"win", "cursed_win"}

\* a probe that ends the node whatever the verdict
PnsTbCutAny(pos, andNode) == pos.wdl # "fail"

\* the tablebase probe of the expansion step of pn_search()
PnsTbCut(pos, andNode) ==
    /\ pos.wdl # "fail"
    /\ IF pos.wdl \in {"loss", "blessed_loss"} THEN ~andNode
       ELSE IF pos.wdl \in {"win", "cursed_win"} THEN andNode
       ELSE pos.wdl = "draw"

Mv(id, victim, bonus, to) ==
    [id |-> id, chk |-> to.chk, victim |-> victim, bonus |-> bonus,
     reach |-> FALSE, bishop |-> FALSE, king |-> FALSE, tbr |-> 0, to |-> to]

\* checkmated / stalemated side to move
Mated == Pos(TRUE, <<>>)

Stale == Pos(FALSE, <<>>)

LegalCount(pos) == Len(pos.moves)

KingMoveCount(pos) == Cardinality({i \in 1..Len(pos.moves) : pos.moves[i].king})

IsCheckmate(pos) == pos.chk /\ Len(pos.moves) = 0

(***************************************************************************)
(* Orderings and sorting.  std::stable_sort and std::sort compare with the *)
(* operator< of the element type: RankedMove in the move lists of          *)
(* search(), RootMove in the root-move lists.  The sorted list has s[i]    *)
(* after the elements that are less than it and after the earlier ones it  *)
(* is not less than; the move lists of this model are short enough for     *)
(* std::sort to insertion-sort them, which keeps that order as well.       *)
(***************************************************************************)
\* the one element of a singleton: binds a computed value to a name
The(S) == CHOOSE x \in S : TRUE

\* RankedMove::operator< : descending by rank
RankedMoveLess(a, b) == b.rank < a.rank

\* RootMove::operator< : "Sort in descending order"
RootMoveLess(a, b) ==
    IF b.score # a.score THEN b.score < a.score
    ELSE b.previousScore < a.previousScore

\* a < b for two elements of one list
Less(a, b) ==
    IF "rank" \in DOMAIN a THEN RankedMoveLess(a, b) ELSE RootMoveLess(a, b)

SortedValue(v) ==
    LET n == Len(v)
        Before(i) ==
            Cardinality({j \in 1..n :
                            \/ Less(v[j], v[i])
                            \/ ~Less(v[i], v[j]) /\ j < i})
    IN <<>> \o [k \in 1..n |-> v[CHOOSE i \in 1..n : Before(i) = k - 1]]

stable_sort(s) == The({SortedValue(v) : v \in {<<>> \o s}})

(***************************************************************************)
(* Move Ranker                                                             *)
(***************************************************************************)
MVV == <<100, 300, 305, 500, 900, 0>>

MvvOf(victim) == IF victim = 0 THEN 0 ELSE MVV[victim]

RankOf(pos, m, ply) ==
    LET base == (IF m.chk THEN 8000 ELSE 0) + MvvOf(m.victim)
        oppMoves == LegalCount(m.to)
    IN IF ply % 2 = 1
       THEN base + (IF pos.chk /\ m.victim > 0 THEN 1000 ELSE 0) + m.bonus
       ELSE base
            + (IF base >= 6000
               THEN (IF oppMoves = 0 THEN 4096 ELSE -8 * oppMoves)
               ELSE 0)
            + m.bonus

score_and_rank_moves(pos, ply) ==
    stable_sort([i \in 1..Len(pos.moves) |->
                    [move |-> pos.moves[i], rank |-> RankOf(pos, pos.moves[i], ply)]])

(***************************************************************************)
(* search(): the recursive alpha/beta mate search.                         *)
(*   th    the worker's rootDepth, targetDepth, fullDepth and the limits   *)
(*         and options the node reads                                      *)
(*   fuel  number of node entries after which Threads.stop reads true      *)
(*         (NoStop: it stays false during the call)                        *)
(* Result: v (returned Value), pv (ss->pv when the call returns), fuel     *)
(* (what is left of it), nodes (moves made below), failed (an assertion of *)
(* this call or of a call below it does not hold; the call goes on as the  *)
(* build without assertions does), wide (a call below returned a value    *)
(* outside [-VALUE_INFINITE, VALUE_INFINITE)), calls (this call and the   *)
(* calls below it: where each was, how it returned and what), moves (what  *)
(* the move loops of these calls did with each move they came to).  The    *)
(* last four are history: nothing in the search reads them.                *)
(***************************************************************************)
Ret(v, pv, fuel, nodes) ==
    [v |-> v, pv |-> pv, fuel |-> fuel, nodes |-> nodes, failed |-> FALSE,
     wide |-> FALSE, calls |-> {}, moves |-> {}]

\* one call of search(): exit is "stop" (flag read or MAX_PLY), "leaf"
\* (depth == 0), "cut" (caps, bare king, draw, tablebase), "cutoff" (beta),
\* "break" (mate within the limit) or "end" (move loop ran out)
Call(pos, ply, depth, exit, v, moveCount) ==
    [ply |-> ply, depth |-> depth, exit |-> exit, v |-> v,
     moveCount |-> moveCount, chk |-> pos.chk, legal |-> LegalCount(pos)]

\* one pass of a move loop: act is "bishop", "low", "frontier" (the three
\* continue statements) or "made"; moveCount is the count the pass found
Pass(ply, depth, lm, moveCount, extension, act) ==
    [ply |-> ply, depth |-> depth, rank |-> lm.rank, chk |-> lm.move.chk,
     moveCount |-> moveCount, extension |-> extension, act |-> act]

\* the result r with the history of the call
Logged(r, calls, moves) ==
    [r EXCEPT !.calls = @ \cup calls, !.moves = @ \cup moves]

\* the result r of a call in which an assertion may have failed
Asserted(r, failed) == [r EXCEPT !.failed = @ \/ failed]

\* the result r of a call with a call below it that returned a wide value
WithWide(r, wide) == [r EXCEPT !.wide = @ \/ wide]

\* the assertions at the entry of search()
EntryHolds(ply, alpha, beta) ==
    /\ -VALUE_INFINITE <= alpha /\ alpha < beta /\ beta <= VALUE_INFINITE
    /\ ply > 0

\* the assertion before search() returns bestValue
ExitHolds(bestValue) == -VALUE_INFINITE <= bestValue /\ bestValue < VALUE_INFINITE

\* an extension that does not look at the ply
ExtensionAnyPly(pos, lm, ply, depth, th) ==
    /\ depth = 1
    /\ th.rootDepth < th.targetDepth
    /\ \/ lm.rank >= 6000
       \/ /\ th.rootDepth >= th.fullDepth
          /\ (lm.move.victim > 0 \/ lm.move.reach)

Extension(pos, lm, ply, depth, th) ==
    /\ depth = 1
    /\ ply < th.targetDepth - 1
    /\ th.rootDepth < th.targetDepth
    /\ \/ lm.rank >= 6000
       \/ /\ th.rootDepth >= th.fullDepth
          /\ (lm.move.victim > 0 \/ lm.move.reach)

BishopGuard(pos, lm, ply, depth, moveCount) ==
    /\ ply % 2 = 1
    /\ depth > 1
    /\ moveCount > 5
    /\ pos.guard
    /\ lm.move.bishop

\* the low-iteration skip with the cutoffs of the root filter
LowIterationSkipRootBands(lm, ply, depth, moveCount, extension, th) ==
    /\ ply % 2 = 0
    /\ ~extension
    /\ moveCount # 0
    /\ depth > 1
    /\ th.targetDepth >= 7
    /\ th.rootDepth > 3
    /\ th.rootDepth < th.targetDepth
    /\ \/ th.rootDepth < th.targetDepth - 4 /\ lm.rank < 8000
       \/ th.rootDepth < th.targetDepth - 2 /\ lm.rank < 4000
       \/ th.rootDepth < th.targetDepth /\ lm.rank < 0

LowIterationSkip(lm, ply, depth, moveCount, extension, th) ==
    /\ ply % 2 = 0
    /\ ~extension
    /\ moveCount # 0
    /\ depth > 1
    /\ th.targetDepth >= 7
    /\ th.rootDepth > 3
    /\ th.rootDepth < th.targetDepth
    /\ \/ th.rootDepth < th.targetDepth - 4 /\ lm.rank < 6000
       \/ th.rootDepth < th.targetDepth - 2 /\ lm.rank < 2000
       \/ th.rootDepth < th.targetDepth /\ lm.rank < 0

\* the frontier skip without its rank test: checks are skipped too
FrontierSkipAll(lm, depth, extension) == depth = 1 /\ ~extension

FrontierSkip(lm, depth, extension) ==
    depth = 1 /\ ~extension /\ lm.rank < 6000

RECURSIVE search(_, _, _, _, _, _, _)
RECURSIVE MoveLoop(_, _, _, _, _, _, _)
RECURSIVE AfterMove(_, _, _, _, _, _, _, _)

\* the loop body from the return of the recursive call, r, on: cutoff,
\* update of alpha, bestValue and the PV, and the early return on a mate
\* within the limit
AfterMove(pos, ply, beta, depth, th, legalMoves, s, r) ==
    LET lm == legalMoves[s.i]
        value == -r.v
        nodes == s.nodes + 1 + r.nodes
        calls == s.calls \cup r.calls
        moves == s.moves \cup r.moves
                 \cup {Pass(ply, depth, lm, s.moveCount,
                             Extension(pos, lm, ply, depth, th), "made")}
    IN IF value > s.bestValue /\ value >= beta
       THEN Logged(WithWide(Asserted(Ret(value, s.pv, r.fuel, nodes),
                                     s.failed \/ r.failed),
                            s.wide \/ r.wide \/ ~ExitHolds(r.v)),
                   calls \cup {Call(pos, ply, depth, "cutoff", value,
                                    s.moveCount + 1)},
                   moves)
       ELSE
       LET s2 == [i |-> s.i + 1,
                  alpha |-> IF value > s.bestValue THEN Max(s.alpha, value)
                            ELSE s.alpha,
                  bestValue |-> Max(s.bestValue, value),
                  moveCount |-> s.moveCount + 1,
                  pv |-> IF value > s.bestValue /\ value > s.alpha
                         THEN <<lm.move.id>> \o r.pv ELSE s.pv,
                  fuel |-> r.fuel,
                  nodes |-> nodes,
                  failed |-> s.failed \/ r.failed,
                  wide |-> s.wide \/ r.wide \/ ~ExitHolds(r.v),
                  calls |-> calls,
                  moves |-> moves]
       IN IF s2.bestValue > VALUE_MATE - 2 * th.mate
          THEN Logged(WithWide(Asserted(Ret(s2.bestValue, s2.pv, s2.fuel, s2.nodes),
                                        s2.failed \/ ~ExitHolds(s2.bestValue)),
                               s2.wide),
                      calls \cup {Call(pos, ply, depth, "break", s2.bestValue,
                                       s2.moveCount)},
                      moves)
          ELSE The({MoveLoop(pos, ply, beta, depth, th, legalMoves, n) : n \in {s2}})

\* the move loop from move s.i on; s holds the node's locals
MoveLoop(pos, ply, beta, depth, th, legalMoves, s) ==
    LET bestValue == IF s.moveCount = 0
                     THEN (IF pos.chk THEN mated_in(ply) ELSE VALUE_DRAW)
                     ELSE s.bestValue
        done == Logged(WithWide(Asserted(Ret(bestValue, s.pv, s.fuel, s.nodes),
                                         s.failed \/ ~ExitHolds(bestValue)),
                                s.wide),
                       s.calls \cup {Call(pos, ply, depth, "end", bestValue,
                                         s.moveCount)},
                       s.moves)
    IN IF s.i > Len(legalMoves) THEN done
       ELSE
       LET lm == legalMoves[s.i]
           extension == Extension(pos, lm, ply, depth, th)
           act == IF BishopGuard(pos, lm, ply, depth, s.moveCount) THEN "bishop"
                  ELSE IF LowIterationSkip(lm, ply, depth, s.moveCount, extension, th)
                  THEN "low"
                  ELSE "frontier"
           next == [s EXCEPT !.i = @ + 1,
                             !.moves = @ \cup {Pass(ply, depth, lm, s.moveCount,
                                                    extension, act)}]
       IN IF \/ BishopGuard(pos, lm, ply, depth, s.moveCount)
             \/ LowIterationSkip(lm, ply, depth, s.moveCount, extension, th)
             \/ FrontierSkip(lm, depth, extension)
          THEN MoveLoop(pos, ply, beta, depth, th, legalMoves, next)
          ELSE The({AfterMove(pos, ply, beta, depth, th, legalMoves, s, r) :
                      r \in {search(lm.move.to, ply + 1, -beta, -s.alpha,
                                    depth - 1 + (IF extension THEN 2 ELSE 0), th,
                                    s.fuel)}})

\* a cap test that counts the moves whatever the option says
MoveCapsAlways(pos, ply, th) ==
    ply % 2 = 1 /\ (KingMoveCount(pos) > 1 \/ LegalCount(pos) > 1)

\* the defender has more king moves or more moves than the KingMoves and
\* AllMoves options allow
MoveCaps(pos, ply, th) ==
    /\ ply % 2 = 1
    /\ \/ th.kingMoves < 8 /\ KingMoveCount(pos) > th.kingMoves
       \/ th.allMoves < 250 /\ LegalCount(pos) > th.allMoves

search(pos, ply, alpha, beta, depth, th, fuel) ==
    LET failed == ~EntryHolds(ply, alpha, beta)
    IN
    IF fuel = 0 \/ ply = MAX_PLY
    THEN Logged(Asserted(Ret(VALUE_ZERO, <<>>, fuel, 0), failed),
                {Call(pos, ply, depth, "stop", VALUE_ZERO, 0)}, {})
    ELSE
    LET left == IF fuel = NoStop THEN NoStop ELSE fuel - 1
        leaf == IF pos.chk /\ LegalCount(pos) = 0 THEN mated_in(ply) ELSE VALUE_DRAW
    IN IF depth = 0
       THEN Logged(Asserted(Ret(leaf, <<>>, left, 0), failed),
                   {Call(pos, ply, depth, "leaf", leaf, 0)}, {})
       ELSE IF \/ MoveCaps(pos, ply, th)
               \/ ply % 2 = 0 /\ pos.bare
               \/ pos.draw
               \/ TbCut(pos, ply)
       THEN Logged(Asserted(Ret(VALUE_DRAW, <<>>, left, 0), failed),
                   {Call(pos, ply, depth, "cut", VALUE_DRAW, 0)}, {})
       ELSE The({MoveLoop(pos, ply, beta, depth, th, legalMoves,
                          [i |-> 1, alpha |-> alpha, bestValue |-> -VALUE_INFINITE,
                           moveCount |-> 0, pv |-> <<>>, fuel |-> left,
                           nodes |-> 0, failed |-> failed, wide |-> FALSE,
                           calls |-> {}, moves |-> {}]) :
                    legalMoves \in {score_and_rank_moves(pos, ply)}})

(***************************************************************************)
(* syzygy_search(): the tablebase walker.  Fills the root moves of the     *)
(* position, lets the oracle rank them, sorts them with RootMove's         *)
(* operator< and descends into the first one until a position without      *)
(* legal moves is reached.                                                 *)
(***************************************************************************)
NewRootMove(m) ==
    [pv |-> <<m.id>>, score |-> VALUE_DRAW, previousScore |-> VALUE_DRAW,
     tbRank |-> 0]

MoveById(pos, id) ==
    pos.moves[CHOOSE i \in 1..Len(pos.moves) : pos.moves[i].id = id]

\* Tablebases::rank_root_moves: tbRank from the oracle, 0 when the probe fails
TbRanked(pos) ==
    [i \in 1..Len(pos.moves) |->
        [NewRootMove(pos.moves[i]) EXCEPT
            !.tbRank = IF pos.tb THEN pos.moves[i].tbr ELSE 0]]

RECURSIVE syzygy_search(_, _)
syzygy_search(pos, ply) ==
    IF LegalCount(pos) = 0 THEN [v |-> mated_in(ply), pv |-> <<>>]
    ELSE
    LET legalMoves == stable_sort(TbRanked(pos))
        bestMove == legalMoves[1].pv[1]
        r == syzygy_search(MoveById(pos, bestMove).to, ply + 1)
    IN [v |-> -r.v, pv |-> <<bestMove>> \o r.pv]

is_basic_mate(pos) == pos.basic

(***************************************************************************)
(* The program state                                                       *)
(***************************************************************************)
VARIABLES
    rootPos,     \* the position handed to go
    Limits,      \* Search::Limits: mate, infinite, bounded (nodes or movetime set)
    Options,     \* Threads, KingMoves, AllMoves
    RootInTB,    \* Tablebases::RootInTB
    stop,        \* Threads.stop
    rootMoves,   \* per thread: Thread::rootMoves
    rootDepth,   \* per thread: Thread::rootDepth
    targetDepth, \* per thread: Thread::targetDepth
    pvIdx,       \* per thread: Thread::pvIdx (0-based)
    bestValue,   \* per thread: bestValue of Thread::search
    pc,          \* per thread: where the thread is
    entryStop,   \* per thread: Threads.stop as search() read it on entry
    mainPc,      \* where MainThread::search is
    searchMoves, \* the sorted list Search::init distributed
    userStop,    \* a stop/quit command arrived during the search
    limitHit,    \* check_time found the node or time limit reached
    out,         \* what MainThread::search printed
    uciPos,      \* UCI::loop: pos
    uciStates,   \* UCI::loop: number of StateInfo in states
    uciOptions,  \* the Options map
    uciCmd,      \* UCI::loop: cmd, the line read last
    uciPc,       \* UCI::loop: "read" before getline, "run" before the handler
    uciOut,      \* the messages printed for the line read last
    goLimits,    \* the limits go handed to Threads.start_thinking
    pns,         \* pn_search: its arena, pointers, stack and counters
    ranked,      \* score_and_rank_moves: the move at hand and its rank
    tt           \* TranspositionTable: the clusters, and what was saved

uciVars == <<uciPos, uciStates, uciOptions, uciCmd, uciPc, uciOut, goLimits>>

tableVars == <<ranked, tt>>

vars == <<rootPos, Limits, Options, RootInTB, stop, rootMoves, rootDepth,
          targetDepth, pvIdx, bestValue, pc, entryStop, mainPc, searchMoves,
          userStop, limitHit, out, uciVars, pns, tableVars>>

Pool == 0..(Options.Threads - 1)

Main == 0

None == [kind |-> "none"]

(***************************************************************************)
(* The positions go is run on.  A position is built bottom-up from the     *)
(* positions its moves lead to; a line ends in a position without legal    *)
(* moves (checkmate or stalemate).                                         *)
(***************************************************************************)
\* moves numbered in generation order, no capture, no geometry bonus
MovesTo(targets) == [i \in 1..Len(targets) |-> Mv(i, 0, 0, targets[i])]

SeqsUpTo(S, n) == UNION {[1..k -> S] : k \in 1..n}

\* defender to move, one legal move into a dead end
DOpen == Pos(FALSE, MovesTo(<<Stale>>))

DChk == Pos(TRUE, MovesTo(<<Stale>>))

\* attacker to move, one or two plies from the end of the line
AMate == Pos(FALSE, MovesTo(<<Mated>>))

AQuietMate == Pos(FALSE, MovesTo(<<DOpen, Mated>>))

ANoMate == Pos(FALSE, MovesTo(<<DChk, DOpen>>))

AInCheck == Pos(TRUE, MovesTo(<<DOpen>>))

\* defender to move after the root move
DefReplies ==
    {<<AMate>>, <<ANoMate>>, <<AMate, AQuietMate>>, <<AQuietMate, ANoMate>>,
     <<AInCheck>>}

DefPositions ==
    {Mated, Stale} \cup {Pos(c, MovesTo(r)) : c \in BOOLEAN, r \in DefReplies}

\* the positions used for the third root move
DefFew == {Mated, Pos(FALSE, MovesTo(<<AMate>>)), Pos(FALSE, MovesTo(<<ANoMate>>))}

\* a defender with many bishops on one colour complex: six replies that lose
\* to a mate in one, and a seventh, a bishop move, that holds
DGuard(lastIsBishop) ==
    [Pos(FALSE, [i \in 1..7 |->
                    IF i < 7 THEN Mv(i, 0, 0, AMate)
                    ELSE [Mv(i, 0, 0, ANoMate) EXCEPT !.bishop = lastIsBishop]])
        EXCEPT !.guard = TRUE]

\* a defender whose replies are capped by the AllMoves / KingMoves options
DKing == Pos(TRUE, [i \in 1..2 |-> [Mv(i, 0, 0, AMate) EXCEPT !.king = TRUE]])

\* positions met by the search that the tablebases or the draw rules cut
DTbCut == [Pos(TRUE, MovesTo(<<AMate>>)) EXCEPT !.wdl = "draw"]

DDraw == [Pos(TRUE, MovesTo(<<AMate>>)) EXCEPT !.draw = TRUE]

\* the attacker is left with a bare king: no move of his gives check
ABare == [Pos(FALSE, MovesTo(<<DOpen>>)) EXCEPT !.bare = TRUE]

PlainRoots ==
    {Pos(c, MovesTo(t)) : c \in {FALSE}, t \in SeqsUpTo(DefPositions, 2)}
    \cup {Pos(FALSE, MovesTo(t)) : t \in [1..3 -> DefFew]}
    \cup {Pos(FALSE, MovesTo(<<DGuard(b)>>)) : b \in BOOLEAN}
    \cup {Pos(FALSE, MovesTo(<<d>>)) : d \in {DKing, DTbCut, DDraw}}
    \cup {Pos(FALSE, MovesTo(<<Pos(FALSE, MovesTo(<<ABare>>))>>))}
    \cup {Mated, Stale}

(***************************************************************************)
(* Roots covered by the tablebases.  In a basic mate the defender has a    *)
(* bare king, so the attacker always has a legal move.                     *)
(***************************************************************************)
TbMv(id, tbr, to) == [Mv(id, 0, 0, to) EXCEPT !.tbr = tbr]

TbPos(chk, basic, moves) ==
    [Pos(chk, moves) EXCEPT !.tb = TRUE, !.basic = basic]

TbMated == TbPos(TRUE, FALSE, <<>>)

TbStale == TbPos(FALSE, FALSE, <<>>)

\* attacker to move: the mating move, alone or generated after a stalemating one
TbA1 == TbPos(FALSE, TRUE, <<TbMv(1, 1000, TbMated)>>)

TbA1Late == TbPos(FALSE, TRUE, <<TbMv(1, 0, TbStale), TbMv(2, 1000, TbMated)>>)

TbD(a) == TbPos(FALSE, FALSE, <<TbMv(1, -1000, a)>>)

TbRoots ==
    {TbA1, TbA1Late}
    \cup {TbPos(FALSE, TRUE, <<TbMv(1, 1000, TbD(a))>>) : a \in {TbA1, TbA1Late}}
    \cup {TbPos(FALSE, TRUE, <<TbMv(1, 1000, TbD(TbA1)), TbMv(2, 1000, TbMated)>>)}
    \cup {TbPos(FALSE, b, <<TbMv(1, 0, TbD(TbA1)), TbMv(2, 1000, TbMated)>>) :
            b \in BOOLEAN}

Roots == PlainRoots \cup TbRoots

\* the command loop has handed the position to go and waits for the next line
UciWaiting ==
    /\ uciPos = rootPos
    /\ uciStates = 1
    /\ uciOptions = [Threads |-> Options.Threads, ProofNumberSearch |-> FALSE]
    /\ uciCmd = <<"go">>
    /\ uciPc = "done"
    /\ uciOut = <<>>
    /\ goLimits = None

(***************************************************************************)
(* Init: the engine is idle; a position, limits and options are set.       *)
(***************************************************************************)
LimitsSet ==
    {[mate |-> m, infinite |-> l[1], bounded |-> l[2]] :
        m \in 1..MaxMate,
        l \in {<<FALSE, FALSE>>, <<TRUE, FALSE>>, <<FALSE, TRUE>>}}

OptionsSet ==
    {[Threads |-> n, KingMoves |-> c[1], AllMoves |-> c[2],
      ProofNumberSearch |-> FALSE, PnsHash |-> LargeArena] :
        n \in 1..MaxThreads, c \in {<<8, 250>>, <<1, 250>>, <<8, 1>>}}

\* the roots that are run under every combination of limits and options; the
\* others are run with the defaults (no infinite, no node or time limit, caps
\* disabled)
CoreRoots ==
    {r \in Roots : LegalCount(r) <= 1}
    \cup TbRoots
    \cup {Pos(FALSE, MovesTo(t)) :
            t \in [1..2 -> {Mated, Pos(FALSE, MovesTo(<<ANoMate>>))}]}
    \cup {Pos(FALSE, MovesTo(<<Pos(FALSE, MovesTo(<<ANoMate>>)), Stale, Mated>>))}
    \cup {Pos(FALSE, MovesTo(<<Pos(FALSE, MovesTo(<<AMate, AQuietMate>>)), Stale>>))}

Defaults(l, o) ==
    ~l.infinite /\ ~l.bounded /\ o.KingMoves = 8 /\ o.AllMoves = 250

Init ==
    /\ rootPos \in Roots
    /\ Limits \in LimitsSet
    /\ Options \in OptionsSet
    /\ rootPos \in CoreRoots \/ Defaults(Limits, Options)
    /\ RootInTB = FALSE
    /\ stop \in BOOLEAN
    /\ rootMoves = [t \in Pool |-> <<>>]
    /\ rootDepth = [t \in Pool |-> 0]
    /\ targetDepth = [t \in Pool |-> 0]
    /\ pvIdx = [t \in Pool |-> 0]
    /\ bestValue = [t \in Pool |-> 0]
    /\ pc = [t \in Pool |-> "idle"]
    /\ entryStop = [t \in Pool |-> FALSE]
    /\ mainPc = "boot"
    /\ searchMoves = <<>>
    /\ userStop = FALSE
    /\ limitHit = FALSE
    /\ out = None
    /\ UciWaiting
    /\ pns = None
    /\ ranked = None
    /\ tt = None

(***************************************************************************)
(* Search::init (called by ThreadPool::start_thinking, which first clears  *)
(* the stop flag and every thread's root moves and counters)               *)
(***************************************************************************)
\* the rank of a root move when the root is not in the tablebases
RootRank(pos, m) ==
    LET oppMoves == LegalCount(m.to)
        oppKingMoves == KingMoveCount(m.to)
    IN (IF m.chk THEN 8000 ELSE 0) + MvvOf(m.victim) + m.bonus
       + (IF oppMoves = 0 THEN 4096 ELSE -8 * oppMoves)
       - 40 * oppKingMoves

RankedRootMoves(pos) ==
    IF pos.tb /\ LegalCount(pos) > 0 THEN TbRanked(pos)
    ELSE [i \in 1..Len(pos.moves) |->
            [NewRootMove(pos.moves[i]) EXCEPT !.tbRank = RootRank(pos, pos.moves[i])]]

\* the deal that starts one thread too far
DistributeShifted(sorted, n) ==
    LET deal[k \in 0..Len(sorted)] ==
            IF k = 0 THEN [t \in 0..(n - 1) |-> <<>>]
            ELSE [deal[k - 1] EXCEPT ![k % n] = Append(@, sorted[k])]
    IN deal[Len(sorted)]

\* "distribute the ranked root moves among all available threads"
Distribute(sorted, n) ==
    LET deal[k \in 0..Len(sorted)] ==
            IF k = 0 THEN [t \in 0..(n - 1) |-> <<>>]
            ELSE [deal[k - 1] EXCEPT ![(k - 1) % n] = Append(@, sorted[k])]
    IN deal[Len(sorted)]

SearchInit ==
    /\ mainPc = "boot"
    /\ LET sorted == stable_sort(RankedRootMoves(rootPos))
       IN /\ searchMoves' = sorted
          /\ rootMoves' = Distribute(sorted, Options.Threads)
    /\ RootInTB' = (rootPos.tb /\ LegalCount(rootPos) > 0)
    /\ stop' = FALSE
    /\ rootDepth' = [t \in Pool |-> 1]
    /\ mainPc' = "go"
    /\ UNCHANGED <<tableVars, pns, uciVars, rootPos, Limits, Options, targetDepth, pvIdx, bestValue, pc,
                   entryStop, userStop, limitHit, out>>

(***************************************************************************)
(* pn_search(): the Proof-Number Search.  Its nodes live in one table, the *)
(* arena; a node is named by its index, and table[0], the root node, is    *)
(* also the sentinel that ends every child list.                           *)
(***************************************************************************)
\* UINT32_MAX / 2 in the source.  No sum pn_search forms leaves 32 bits
\* (each is at most 2 * INFINITE), so only the order of INFINITE and the
\* finite numbers matters; the value here is above every finite number of the
\* trees that are run and keeps INFINITE + 1 within TLC's 32-bit integers.
INFINITE == 1000000

\* the bin is used once it holds this many nodes
RecycleFrom == 40

\* free nodes kept behind the allocation pointer, and the bin size below
\* which running into them ends the search
MemoryReserve == 100

rootNode == 0

\* a pointer of the zero-filled arena that no save() has written
NullNode == -1

Node_save(pn, dn, move, firstChild, nextSibling) ==
    [pn |-> pn, dn |-> dn, move |-> move, firstChild |-> firstChild,
     nextSibling |-> nextSibling]

\* the arena holds the nodes that were written; all others are zero-filled
Cell(table, i) ==
    IF i \in DOMAIN table THEN table[i]
    ELSE Node_save(0, 0, MOVE_NONE, NullNode, NullNode)

Put(table, i, node) ==
    [j \in DOMAIN table \cup {i} |-> IF j = i THEN node ELSE table[j]]

\* a walk of at most left steps along nextSibling from n: the nodes met
\* before the sentinel (seq) and the node the walk stands on at its end (at).
\* The walk is cut in halves, so that a list of a hundred nodes is not a
\* hundred nested evaluations.
RECURSIVE ChainWalk(_, _, _)
ChainWalk(table, n, left) ==
    IF n = rootNode \/ n = NullNode \/ left = 0 THEN [seq |-> <<>>, at |-> n]
    ELSE IF left = 1 THEN [seq |-> <<n>>, at |-> Cell(table, n).nextSibling]
    ELSE The({The({[seq |-> a.seq \o b.seq, at |-> b.at] :
                      b \in {ChainWalk(table, a.at, left - left \div 2)}}) :
                 a \in {ChainWalk(table, n, left \div 2)}})

\* the nodes a walk along nextSibling meets before it reaches the sentinel
ChainFrom(table, n, left) == ChainWalk(table, n, left).seq

Chain(table, first) == ChainFrom(table, first, Cardinality(DOMAIN table) + 1)

\* the walk ends at the sentinel (it neither runs in a circle nor leaves the
\* nodes that were written)
ChainEnds(table, n, left) == ChainWalk(table, n, left).at = rootNode

Children(table, n) == Chain(table, Cell(table, n).firstChild)

ListEnds(table, n) ==
    ChainEnds(table, Cell(table, n).firstChild, Cardinality(DOMAIN table) + 1)

PnsTargetDepth(mate) ==
    IF 2 * mate - 1 < MAX_PLY - 1 THEN 2 * mate - 1 ELSE MAX_PLY - 1

\* pn_search before its main loop.  Three fields are history: owner (the node
\* under which a slot was last written), allocs (the allocations of the
\* last expansion, each with the state of the allocator it found) and met
\* (the walks that met a node of the bin or a node of another parent)
PnsSetup(pos, nodeCount, mate, kingMoves) ==
    [pc |-> "select",
     nodeCount |-> nodeCount,
     targetDepth |-> PnsTargetDepth(mate),
     kingMoves |-> kingMoves,
     table |-> Put(<<>>, rootNode, Node_save(1, 1, MOVE_NONE, rootNode, rootNode)),
     nextNode |-> rootNode + 1,
     recyclingBin |-> <<>>,
     currentNode |-> rootNode,
     bestNode |-> rootNode,
     previousSiblingNode |-> rootNode,
     ply |-> 0,
     path |-> <<pos>>,
     parentNode |-> [p \in 0..(PnsTargetDepth(mate) + 1) |-> rootNode],
     pv |-> [p \in 0..(PnsTargetDepth(mate) + 1) |-> <<>>],
     updatePV |-> FALSE,
     iteration |-> 0,
     outOfMemory |-> FALSE,
     overrun |-> FALSE,
     ub |-> FALSE,
     firstMove |-> TRUE,
     movecount |-> 0,
     broke |-> FALSE,
     owner |-> Put(<<>>, rootNode, rootNode),
     allocs |-> <<>>,
     met |-> {}]

InBin(m, n) == \E k \in 1..Len(m.recyclingBin) : m.recyclingBin[k] = n

\* the nodes on the list of n that wait in the bin or were written again
\* under another node
Strangers(m, n) ==
    {c \in {Children(m.table, n)[k] : k \in 1..Len(Children(m.table, n))} :
        InBin(m, c) \/ Cell(m.owner, c) # n}

\* a scan that takes the first child whatever its numbers
PickFirst(table, cur, kids, andNode, bestNode) == kids[1]

\* Step 1, inner loops: the child the scan of the list leaves in bestNode
\* the scan over kids[lo..hi], entered with the locals p; done is the early
\* exit at a child whose number equals the parent's.  (The passes lo..hi are
\* evaluated in halves: a list of a hundred children is not a hundred nested
\* evaluations.)
RECURSIVE PickScan(_, _, _, _, _, _, _)
PickScan(table, cur, kids, andNode, p, lo, hi) ==
    LET key(n) == IF andNode THEN Cell(table, n).dn ELSE Cell(table, n).pn
    IN IF lo > hi \/ p.done THEN p
       ELSE IF lo = hi
       THEN [min |-> IF key(kids[lo]) < p.min THEN key(kids[lo]) ELSE p.min,
             best |-> IF key(kids[lo]) < p.min THEN kids[lo] ELSE p.best,
             done |-> key(kids[lo]) = key(cur)]
       ELSE The({PickScan(table, cur, kids, andNode, half, (lo + hi) \div 2 + 1, hi) :
                    half \in {PickScan(table, cur, kids, andNode, p, lo,
                                       (lo + hi) \div 2)}})

PickChild(table, cur, kids, andNode, bestNode) ==
    PickScan(table, cur, kids, andNode,
             [min |-> INFINITE + 1, best |-> bestNode, done |-> FALSE],
             1, Len(kids)).best

Legal(pos, move) == \E i \in 1..Len(pos.moves) : pos.moves[i].id = move

\* Step 1: walk down to the most-proving node
RECURSIVE Selection(_)
Selection(m) ==
    IF \/ m.ub
       \/ Cell(m.table, m.currentNode).firstChild = rootNode
       \/ m.ply >= m.targetDepth
    THEN m
    ELSE IF ~ListEnds(m.table, m.currentNode) THEN [m EXCEPT !.ub = TRUE]
    ELSE
    LET best == PickChild(m.table, m.currentNode,
                          Children(m.table, m.currentNode),
                          m.ply % 2 = 1, m.bestNode)
        pos == m.path[m.ply + 1]
        move == Cell(m.table, best).move
    IN IF ~Legal(pos, move) THEN [m EXCEPT !.ub = TRUE]
       ELSE The({Selection(down) :
                   down \in {[m EXCEPT
                                !.path = Append(@, MoveById(pos, move).to),
                                !.ply = @ + 1,
                                !.parentNode[m.ply + 1] = m.currentNode,
                                !.currentNode = best,
                                !.bestNode = best,
                                !.met = @ \cup
                                    IF Strangers(m, m.currentNode) # {}
                                    THEN {"selection"} ELSE {}]}})

\* a bin that is used as soon as it holds a node
RecyclingAny(bin) == Len(bin) > 0

\* Step 3: the new node comes from the bin, not from nextNode
Recycling(bin) == Len(bin) >= RecycleFrom

\* the kingMoves cap of pn_search
KingCap(pos, andNode, kingMoves) ==
    andNode /\ kingMoves < 8 /\ KingMoveCount(pos) > kingMoves

\* every position without a legal move counts as a checkmate
NoMoveIsMate(pos, andNode) ==
    [pn |-> IF andNode THEN 0 ELSE INFINITE,
     dn |-> IF andNode THEN INFINITE ELSE 0]

\* Step 3: the numbers of a node whose position has no legal move: a checkmate
\* is a win for the side that was mated last, a stalemate a loss for the root
NoMoveNumbers(pos, andNode) ==
    IF pos.chk
    THEN [pn |-> IF andNode THEN 0 ELSE INFINITE,
          dn |-> IF andNode THEN INFINITE ELSE 0]
    ELSE [pn |-> INFINITE, dn |-> 0]

\* Step 3: the numbers of a new node for the position pos at ply
ChildNumbers(pos, ply, td, kingMoves) ==
    LET andNode == ply % 2 = 1
        n == LegalCount(pos)
        loss == [pn |-> INFINITE, dn |-> 0]
    IN IF n = 0 THEN NoMoveNumbers(pos, andNode)
       ELSE IF KingCap(pos, andNode, kingMoves) THEN loss
       ELSE IF ~andNode /\ pos.bare THEN loss
       ELSE IF pos.draw \/ ply = td THEN loss
       ELSE IF PnsTbCut(pos, andNode) THEN loss
       ELSE [pn |-> IF andNode THEN 1 + n ELSE 1,
             dn |-> IF andNode THEN 1 ELSE 1 + n]

\* Steps 2 and 3: the pass of the moves loop for legalMoves[i]; rms are the
\* root moves of the thread.  firstMove and movecount are the locals of the
\* loop, broke says that the loop was left by its break.
ExpandMove(m, rms, legalMoves, i) ==
    LET move == legalMoves[i].move
        andNode == (m.ply + 1) % 2 = 1
    IN IF m.broke THEN m
       ELSE IF \/ /\ m.currentNode = rootNode
                  /\ ~\E k \in 1..Len(rms) : rms[k].pv[1] = move.id
               \/ m.ply = m.targetDepth - 1 /\ m.movecount > 0 /\ ~move.chk
       THEN m
       ELSE
       LET recycling == Recycling(m.recyclingBin)
           node == IF recycling THEN Head(m.recyclingBin) ELSE m.nextNode
           bin == IF recycling THEN Tail(m.recyclingBin) ELSE m.recyclingBin
           numbers == ChildNumbers(move.to, m.ply + 1, m.targetDepth, m.kingMoves)
           saved == Put(m.table, node,
                        Node_save(numbers.pn, numbers.dn, move.id, rootNode,
                                  rootNode))
           linked == IF m.firstMove
                     THEN Put(saved, m.currentNode,
                              [Cell(saved, m.currentNode) EXCEPT
                                  !.firstChild = node])
                     ELSE Put(saved, m.previousSiblingNode,
                              [Cell(saved, m.previousSiblingNode) EXCEPT
                                  !.nextSibling = node])
           startsPV == /\ IsCheckmate(move.to)
                       /\ m.ply + 1 = m.targetDepth
           next == IF recycling THEN m.nextNode ELSE m.nextNode + 1
           break == \/ andNode /\ numbers.pn = 0
                    \/ ~andNode /\ numbers.dn = 0
       IN [m EXCEPT
              !.table = linked,
              !.recyclingBin = bin,
              !.previousSiblingNode = node,
              !.nextNode = next,
              !.updatePV = @ \/ startsPV,
              !.pv[m.ply + 1] = IF startsPV THEN <<move.id>> ELSE @,
              !.overrun = @ \/ node >= m.nodeCount,
              !.owner = Put(@, node, m.currentNode),
              !.allocs = Append(@, [slot |-> node,
                                    recycling |-> recycling,
                                    bin |-> m.recyclingBin,
                                    nextNode |-> m.nextNode,
                                    after |-> next,
                                    fresh |-> node \notin DOMAIN m.table]),
              !.outOfMemory =
                  \/ @
                  \/ /\ ~break
                     /\ next > m.nodeCount - MemoryReserve
                     /\ Len(bin) < MemoryReserve,
              !.firstMove = FALSE,
              !.movecount = IF break THEN @ ELSE @ + 1,
              !.broke = break]

\* Steps 2 and 3: the passes of the moves loop for legalMoves[lo..hi], in
\* order (the range is halved to keep the evaluation shallow)
RECURSIVE Expansion(_, _, _, _, _)
Expansion(m, rms, legalMoves, lo, hi) ==
    IF lo > hi THEN m
    ELSE IF lo = hi THEN ExpandMove(m, rms, legalMoves, lo)
    ELSE The({Expansion(half, rms, legalMoves, (lo + hi) \div 2 + 1, hi) :
                half \in {Expansion(m, rms, legalMoves, lo, (lo + hi) \div 2)}})

\* a sum that is not capped
PlainSum(a, b) == a + b

\* a sum capped one below INFINITE
CappedBelow(a, b) == IF a + b < INFINITE - 1 THEN a + b ELSE INFINITE - 1

SaturatedSum(a, b) == IF a + b < INFINITE THEN a + b ELSE INFINITE

\* Step 4, inner loops: the numbers of node cur recomputed from its children
\* the sum and the minimum after the children kids[lo..hi], entered with p
RECURSIVE SumAndMin(_, _, _, _, _, _)
SumAndMin(table, kids, andNode, p, lo, hi) ==
    IF lo > hi THEN p
    ELSE IF lo = hi
    THEN LET c == Cell(table, kids[lo])
         IN [sum |-> SaturatedSum(p.sum, IF andNode THEN c.pn ELSE c.dn),
             min |-> IF (IF andNode THEN c.dn ELSE c.pn) < p.min
                     THEN (IF andNode THEN c.dn ELSE c.pn)
                     ELSE p.min]
    ELSE The({SumAndMin(table, kids, andNode, half, (lo + hi) \div 2 + 1, hi) :
                 half \in {SumAndMin(table, kids, andNode, p, lo, (lo + hi) \div 2)}})

Recomputed(table, cur, andNode) ==
    LET kids == Children(table, cur)
    IN The({IF andNode THEN [pn |-> r.sum, dn |-> r.min]
                       ELSE [pn |-> r.min, dn |-> r.sum] :
               r \in {SumAndMin(table, kids, andNode,
                                [sum |-> 0, min |-> INFINITE + 1], 1, Len(kids))}})

\* a loop that pushes every child, resolved or not
RecycledAll(table, cur, andNode) == Children(table, cur)

\* Step 4, inner loops: the nodes pushed to the recycling bin, in order
RECURSIVE Pushed(_, _, _, _, _)
Pushed(table, kids, andNode, lo, hi) ==
    LET resolved(c) == IF andNode THEN c.pn = INFINITE /\ c.dn = 0
                                  ELSE c.pn = 0 /\ c.dn = INFINITE
    IN IF lo > hi THEN <<>>
       ELSE IF lo = hi
       THEN (IF resolved(Cell(table, kids[lo]))
             THEN <<kids[lo]>> \o Children(table, kids[lo])
             ELSE <<>>)
       ELSE Pushed(table, kids, andNode, lo, (lo + hi) \div 2)
            \o Pushed(table, kids, andNode, (lo + hi) \div 2 + 1, hi)

Recycled(table, cur, andNode) ==
    The({Pushed(table, kids, andNode, 1, Len(kids)) : kids \in {Children(table, cur)}})

\* a step 4 that leaves the stack where the expansion was
NoUnwinding(m) == m

\* Step 4: update the nodes on the way back to the root
RECURSIVE Backpropagation(_)
Backpropagation(m) ==
    LET cur == m.currentNode
        andNode == m.ply % 2 = 1
        kidsEnd == /\ ListEnds(m.table, cur)
                   /\ \A c \in {Children(m.table, cur)[k] :
                                  k \in 1..Len(Children(m.table, cur))} :
                         ListEnds(m.table, c)
        numbers == Recomputed(m.table, cur, andNode)
        updated == [m EXCEPT
                      !.table = Put(@, cur, [Cell(@, cur) EXCEPT
                                                !.pn = numbers.pn,
                                                !.dn = numbers.dn]),
                      !.recyclingBin = @ \o Recycled(m.table, cur, andNode),
                      !.met = @ \cup
                          (IF Strangers(m, cur) # {} THEN {"scan"} ELSE {})
                          \cup
                          (IF \E k \in 1..Len(Recycled(m.table, cur, andNode)) :
                                 LET c == Recycled(m.table, cur, andNode)[k]
                                 IN Cell(m.owner, c) = cur /\ Strangers(m, c) # {}
                           THEN {"recycle"} ELSE {})]
    IN IF m.ub \/ ~kidsEnd THEN [m EXCEPT !.ub = TRUE]
       ELSE IF cur = rootNode THEN updated
       ELSE IF m.ply = 0 THEN [updated EXCEPT !.ub = TRUE]
       ELSE The({Backpropagation(up) :
                   up \in {[updated EXCEPT
                              !.pv[m.ply] =
                                  IF m.updatePV
                                  THEN <<Cell(m.table, cur).move>> \o m.pv[m.ply + 1]
                                  ELSE @,
                              !.currentNode = m.parentNode[m.ply],
                              !.ply = @ - 1,
                              !.path = SubSeq(@, 1, Len(@) - 1)]}})

\* the index of the root move that starts with move (0: std::find returns end())
FindRootMove(rms, move) ==
    IF \E k \in 1..Len(rms) : rms[k].pv[1] = move
    THEN CHOOSE k \in 1..Len(rms) :
            /\ rms[k].pv[1] = move
            /\ \A j \in 1..(k - 1) : rms[j].pv[1] # move
    ELSE 0

\* end of the iteration: the PV built on the stack goes to its root move
AttachPV(m, rms) ==
    LET k == FindRootMove(rms, m.pv[1][1])
    IN IF ~m.updatePV THEN rms
       ELSE IF k = 0 THEN rms
       ELSE IF Len(rms[k].pv) < Len(m.pv[1])
            THEN [rms EXCEPT ![k].pv = <<rms[k].pv[1]>> \o m.pv[2]]
            ELSE rms

\* the first root child with pn == 0 (the sentinel if there is none)
ProvenRootChild(table) ==
    LET kids == Children(table, rootNode)
        hits == {k \in 1..Len(kids) : Cell(table, kids[k]).pn = 0}
    IN IF hits = {} THEN rootNode
       ELSE kids[CHOOSE k \in hits : \A j \in hits : k <= j]

\* the nodes the scan for the proven root child reads
FinalScan(table) ==
    LET kids == Children(table, rootNode)
    IN {kids[k] : k \in {j \in 1..Len(kids) :
                           \A i \in 1..(j - 1) : Cell(table, kids[i]).pn # 0}}

\* the root moves after the update that follows the stop conditions
ScoreRootMoves(table, rms) ==
    LET k == FindRootMove(rms, Cell(table, ProvenRootChild(table)).move)
    IN stable_sort(IF Cell(table, rootNode).pn = 0 /\ k # 0
                   THEN [rms EXCEPT ![k].score = VALUE_MATE - Len(rms[k].pv)]
                   ELSE rms)

(***************************************************************************)
(* MainThread::search, first part: no root move, or start the workers      *)
(***************************************************************************)
MainSearch ==
    /\ mainPc = "go"
    /\ IF rootMoves[Main] = <<>>
       THEN /\ out' = [kind |-> "bestmove", move |-> MOVE_NULL, pv |-> <<>>,
                       score |-> IF rootPos.chk THEN -VALUE_MATE ELSE VALUE_DRAW,
                       success |-> FALSE, mateIn |-> 0, thread |-> Main,
                       depth0 |-> TRUE,
                       info |-> UCI_value(IF rootPos.chk THEN -VALUE_MATE
                                                         ELSE VALUE_DRAW),
                       text |-> UCI_move(MOVE_NULL)]
            /\ mainPc' = "done"
            /\ pc' = pc
            /\ UNCHANGED <<pns, rootMoves, rootDepth>>
       ELSE IF Options.ProofNumberSearch
       THEN /\ pns' = PnsSetup(rootPos, Options.PnsHash, Limits.mate,
                               Options.KingMoves)
            /\ rootDepth' = [rootDepth EXCEPT ![Main] = PnsTargetDepth(Limits.mate)]
            /\ rootMoves' = [rootMoves EXCEPT ![Main] =
                                [k \in 1..Len(@) |-> [@[k] EXCEPT !.score = VALUE_DRAW]]]
            /\ mainPc' = "pns"
            /\ UNCHANGED <<pc, out>>
       ELSE /\ pc' = [t \in Pool |-> "start"]
            /\ mainPc' = "searching"
            /\ UNCHANGED <<out, pns, rootMoves, rootDepth>>
    /\ UNCHANGED <<tableVars, uciVars, rootPos, Limits, Options, RootInTB, stop, targetDepth, pvIdx,
                   bestValue, entryStop, searchMoves, userStop, limitHit>>

(***************************************************************************)
(* Thread::search                                                          *)
(***************************************************************************)
\* Tablebases::RootInTB is a plain global that the walker's rank_root_moves
\* rewrites (false, then the probe's result) while the other workers read it
TbReads(t) ==
    IF t # Main /\ pc[Main] = "walking" THEN BOOLEAN ELSE {RootInTB}

\* rootMoves[0].tbRank, read without a check that the list is not empty
FirstTbRanks(t) ==
    IF rootMoves[t] = <<>> THEN {0, 1000} ELSE {rootMoves[t][1].tbRank}

TargetDepthOf(mate) == IF mate # 0 THEN 2 * mate - 1 ELSE MAX_PLY

FullDepthOf(mate) == Max(TargetDepthOf(mate) - (IF mate > 5 THEN 4 ELSE 2), 1)

AlphaOf(mate) == VALUE_MATE - 2 * mate

ThreadStart(t) ==
    /\ pc[t] = "start"
    /\ \E intb \in TbReads(t), first \in FirstTbRanks(t) :
          IF intb /\ first > 900 /\ is_basic_mate(rootPos)
          THEN /\ pc' = [pc EXCEPT ![t] = IF t # Main THEN "done" ELSE "walking"]
               /\ UNCHANGED <<targetDepth, bestValue, pvIdx>>
          ELSE /\ targetDepth' = [targetDepth EXCEPT ![t] = TargetDepthOf(Limits.mate)]
               /\ bestValue' = [bestValue EXCEPT ![t] = VALUE_MATE_IN_MAX_PLY - 1]
               /\ pvIdx' = [pvIdx EXCEPT ![t] = 0]
               /\ pc' = [pc EXCEPT ![t] = "loop"]
    /\ UNCHANGED <<tableVars, pns, uciVars, rootPos, Limits, Options, RootInTB, stop, rootMoves, rootDepth,
                   entryStop, mainPc, searchMoves, userStop, limitHit, out>>

\* the tablebase walker branch, main thread only
Walker(t) ==
    /\ pc[t] = "walking"
    /\ LET rm == rootMoves[t][1]
           r == syzygy_search(MoveById(rootPos, rm.pv[1]).to, 1)
       IN rootMoves' = [rootMoves EXCEPT ![t][1] =
                           [rm EXCEPT !.score = -r.v, !.pv = rm.pv \o r.pv]]
    /\ pc' = [pc EXCEPT ![t] = "done"]
    /\ UNCHANGED <<tableVars, pns, uciVars, rootPos, Limits, Options, RootInTB, stop, rootDepth, targetDepth,
                   pvIdx, bestValue, entryStop, mainPc, searchMoves, userStop,
                   limitHit, out>>

\* a schedule whose rank bands apply from the first iteration on
RootSkipNoFloor(rm, intb1, intb2, rd, td) ==
    \/ intb1 /\ rm.tbRank <= 0
    \/ ~intb2 /\ rd = 1 /\ rm.tbRank < 5000
    \/ /\ td > 7
       /\ rd < td
       /\ \/ rd < td - 4 /\ rm.tbRank < 8000
          \/ rd < td - 2 /\ rm.tbRank < 4000
          \/ rd < td /\ rm.tbRank < 0

\* the root-filter schedule; intb1 and intb2 are the two reads of RootInTB
RootSkip(rm, intb1, intb2, rd, td) ==
    \/ intb1 /\ rm.tbRank <= 0
    \/ ~intb2 /\ rd = 1 /\ rm.tbRank < 5000
    \/ /\ td > 7
       /\ rd > 3
       /\ rd < td
       /\ \/ rd < td - 4 /\ rm.tbRank < 8000
          \/ rd < td - 2 /\ rm.tbRank < 4000
          \/ rd < td /\ rm.tbRank < 0

\* top of the root-move loop: skip the move, or make it and enter search()
NextRootMove(t) ==
    /\ pc[t] = "loop"
    /\ pvIdx[t] < Len(rootMoves[t])
    /\ \E intb1 \in TbReads(t), intb2 \in TbReads(t) :
          IF RootSkip(rootMoves[t][pvIdx[t] + 1], intb1, intb2, rootDepth[t],
                      targetDepth[t])
          THEN /\ pvIdx' = [pvIdx EXCEPT ![t] = @ + 1]
               /\ UNCHANGED <<pc, entryStop>>
          ELSE /\ pc' = [pc EXCEPT ![t] = "insearch"]
               /\ entryStop' = [entryStop EXCEPT ![t] = stop]
               /\ pvIdx' = pvIdx
    /\ UNCHANGED <<tableVars, pns, uciVars, rootPos, Limits, Options, RootInTB, stop, rootMoves, rootDepth,
                   targetDepth, bestValue, mainPc, searchMoves, userStop, limitHit,
                   out>>

ThreadCtx(t) ==
    [rootDepth |-> rootDepth[t], targetDepth |-> targetDepth[t],
     fullDepth |-> FullDepthOf(Limits.mate), mate |-> Limits.mate,
     kingMoves |-> Options.KingMoves, allMoves |-> Options.AllMoves]

\* when the stop flag may turn true for the search() call that is returning
Fuels(t) ==
    IF entryStop[t] THEN {0}
    ELSE IF stop THEN 0..MaxFuel \cup {NoStop}
    ELSE {NoStop}

\* "Sort the PV lines searched so far"
SortPrefix(rms, n) ==
    stable_sort(SubSeq(rms, 1, n)) \o SubSeq(rms, n + 1, Len(rms))

\* the root call with the full window
RootSearchFullWindow(t, fuel) ==
    search(MoveById(rootPos, rootMoves[t][pvIdx[t] + 1].pv[1]).to, 1,
           -VALUE_INFINITE, VALUE_INFINITE, rootDepth[t] - 1, ThreadCtx(t),
           fuel)

\* the call ::search(rootPos, ss+1, -beta, -alpha, rootDepth-1) for the root
\* move at pvIdx
RootSearch(t, fuel) ==
    search(MoveById(rootPos, rootMoves[t][pvIdx[t] + 1].pv[1]).to, 1,
           -VALUE_INFINITE, -AlphaOf(Limits.mate), rootDepth[t] - 1, ThreadCtx(t),
           fuel)

\* the loop left only on a mate, the flag not read
BreaksLoopOnMate(stopRead, found) == found

\* "Have we found a mate within the specified limit?" sets the flag, and the
\* flag, read after that, breaks the root-move loop
BreaksLoop(stopRead, found) == stopRead \/ found

\* search() returns: take the value, update the root move, test for a mate
\* within the limit and for the stop flag
FinishRootMove(t) ==
    /\ pc[t] = "insearch"
    /\ \E fuel \in Fuels(t) : \E r \in {RootSearch(t, fuel)} :
        LET rm == rootMoves[t][pvIdx[t] + 1]
            value == -r.v
            improved == value > bestValue[t]
            best == IF improved THEN value ELSE bestValue[t]
            updated == [rootMoves[t] EXCEPT ![pvIdx[t] + 1] =
                           [rm EXCEPT !.score = value, !.pv = <<rm.pv[1]>> \o r.pv]]
            found == best >= AlphaOf(Limits.mate)
        IN /\ bestValue' = [bestValue EXCEPT ![t] = best]
           /\ rootMoves' = [rootMoves EXCEPT ![t] =
                               IF improved THEN SortPrefix(updated, pvIdx[t] + 1)
                               ELSE @]
           /\ stop' = (stop \/ found)
           /\ IF BreaksLoop(stop, found)
              THEN pc' = [pc EXCEPT ![t] = "done"] /\ pvIdx' = pvIdx
              ELSE /\ pc' = [pc EXCEPT ![t] = "loop"]
                   /\ pvIdx' = [pvIdx EXCEPT ![t] = @ + 1]
    /\ UNCHANGED <<tableVars, pns, uciVars, rootPos, Limits, Options, RootInTB, rootDepth, targetDepth,
                   entryStop, mainPc, searchMoves, userStop, limitHit, out>>

\* the iterations modelled: one more than the largest target depth of a
\* mate limit in 1..DeepMate; a limit below 1 has a target depth that
\* rootDepth never meets
MaxRootDepth == 2 * DeepMate + 1

\* after the last root move of an iteration
EndIteration(t) ==
    /\ pc[t] = "loop"
    /\ pvIdx[t] = Len(rootMoves[t])
    /\ IF stop \/ rootDepth[t] = targetDepth[t]
       THEN pc' = [pc EXCEPT ![t] = "done"] /\ UNCHANGED <<rootDepth, pvIdx>>
       ELSE /\ rootDepth[t] < MaxRootDepth
            /\ rootDepth' = [rootDepth EXCEPT ![t] = @ + 2]
            /\ pvIdx' = [pvIdx EXCEPT ![t] = 0]
            /\ pc' = pc
    /\ UNCHANGED <<tableVars, pns, uciVars, rootPos, Limits, Options, RootInTB, stop, rootMoves, targetDepth,
                   bestValue, entryStop, mainPc, searchMoves, userStop, limitHit,
                   out>>

(***************************************************************************)
(* MainThread::search, second part, and the stop sources outside the       *)
(* workers                                                                 *)
(***************************************************************************)
\* main's own Thread::search has returned; busy wait while infinite, then
\* "Stop the threads if not already stopped"
MainStop ==
    /\ mainPc = "searching"
    /\ pc[Main] = "done"
    /\ stop \/ ~Limits.infinite
    /\ stop' = TRUE
    /\ mainPc' = "joining"
    /\ UNCHANGED <<tableVars, pns, uciVars, rootPos, Limits, Options, RootInTB, rootMoves, rootDepth,
                   targetDepth, pvIdx, bestValue, pc, entryStop, searchMoves,
                   userStop, limitHit, out>>

\* the pick with >= for >: of equal scores the later thread wins
BestThreadLast ==
    LET pick[i \in 0..(Options.Threads - 1)] ==
            LET prev == IF i = 0 THEN Main ELSE pick[i - 1]
            IN IF /\ rootMoves[i] # <<>>
                  /\ rootMoves[i][1].score >= rootMoves[prev][1].score
               THEN i ELSE prev
    IN pick[Options.Threads - 1]

\* the thread the loop over the pool leaves in bestThread
BestThread ==
    LET pick[i \in 0..(Options.Threads - 1)] ==
            LET prev == IF i = 0 THEN Main ELSE pick[i - 1]
            IN IF /\ rootMoves[i] # <<>>
                  /\ rootMoves[i][1].score > rootMoves[prev][1].score
               THEN i ELSE prev
    IN pick[Options.Threads - 1]

\* every other thread has finished: report and print bestmove
MainEmit ==
    /\ mainPc = "joining"
    /\ \A t \in Pool \ {Main} : pc[t] = "done"
    /\ LET rm == rootMoves[BestThread][1]
       IN out' = [kind |-> "bestmove", move |-> rm.pv[1], pv |-> rm.pv,
                  score |-> rm.score,
                  success |-> rm.score >= VALUE_MATE_IN_MAX_PLY,
                  mateIn |-> (VALUE_MATE - rm.score + 1) \div 2,
                  thread |-> BestThread, depth0 |-> FALSE,
                  info |-> UCI_value(rm.score), text |-> UCI_move(rm.pv[1])]
    /\ mainPc' = "done"
    /\ UNCHANGED <<tableVars, pns, uciVars, rootPos, Limits, Options, RootInTB, stop, rootMoves, rootDepth,
                   targetDepth, pvIdx, bestValue, pc, entryStop, searchMoves,
                   userStop, limitHit>>

\* UCI::loop: "stop" or "quit" while the search runs
UserStop ==
    /\ mainPc \in {"go", "pns", "searching", "joining"}
    /\ ~userStop
    /\ stop' = TRUE
    /\ userStop' = TRUE
    /\ UNCHANGED <<tableVars, pns, uciVars, rootPos, Limits, Options, RootInTB, rootMoves, rootDepth,
                   targetDepth, pvIdx, bestValue, pc, entryStop, mainPc,
                   searchMoves, limitHit, out>>

\* MainThread::check_time, called by the main thread on every node entry
CheckTime ==
    /\ Limits.bounded
    /\ pc[Main] = "insearch"
    /\ ~limitHit
    /\ stop' = TRUE
    /\ limitHit' = TRUE
    /\ UNCHANGED <<tableVars, pns, uciVars, rootPos, Limits, Options, RootInTB, rootMoves, rootDepth,
                   targetDepth, pvIdx, bestValue, pc, entryStop, mainPc,
                   searchMoves, userStop, out>>

Next ==
    \/ SearchInit
    \/ MainSearch
    \/ \E t \in Pool : ThreadStart(t)
    \/ Walker(Main)
    \/ \E t \in Pool : NextRootMove(t)
    \/ \E t \in Pool : FinishRootMove(t)
    \/ \E t \in Pool : EndIteration(t)
    \/ MainStop
    \/ MainEmit
    \/ UserStop
    \/ CheckTime

Spec == Init /\ [][Next]_vars

(***************************************************************************)
(* What the claims are measured against: forced mates by the rules of the  *)
(* game, and lines of play.                                                *)
(***************************************************************************)
RECURSIVE DefenderLost(_, _)
RECURSIVE AttackerMates(_, _)

\* the defender, to move, is checkmated now or cannot avoid checkmate within
\* k more plies
DefenderLost(pos, k) ==
    \/ IsCheckmate(pos)
    \/ /\ k >= 2
       /\ ~pos.draw
       /\ LegalCount(pos) > 0
       /\ \A i \in 1..Len(pos.moves) : AttackerMates(pos.moves[i].to, k - 1)

\* the attacker, to move, can force checkmate within k plies
AttackerMates(pos, k) ==
    /\ k >= 1
    /\ ~pos.draw
    /\ \E i \in 1..Len(pos.moves) : DefenderLost(pos.moves[i].to, k - 1)

HasMove(pos, id) == \E i \in 1..Len(pos.moves) : pos.moves[i].id = id

\* the position after playing the moves of line from pos; Stale with the
\* draw flag set stands for "the line is not legal"
Illegal == [Stale EXCEPT !.draw = TRUE]

RECURSIVE Play(_, _)
Play(pos, line) ==
    IF line = <<>> THEN pos
    ELSE IF ~HasMove(pos, Head(line)) THEN Illegal
    ELSE Play(MoveById(pos, Head(line)).to, Tail(line))

Emitted == out.kind = "bestmove" /\ ~out.depth0

(***************************************************************************)
(* C1: alpha/beta soundness.  When the root is not handed to the tablebase *)
(* walker and MainThread::search reports Success, the reported best move   *)
(* starts a forced checkmate within Limits.mate moves (2*mate - 1 plies).  *)
(***************************************************************************)
C1_Soundness ==
    (Emitted /\ ~rootPos.tb /\ out.success)
        => DefenderLost(MoveById(rootPos, out.move).to, 2 * Limits.mate - 2)

\* the bishop guard has skipped a refuting reply: Success is printed for a
\* root whose only move leads to the defender DGuard(TRUE), who holds
C1_Reached ==
    /\ Emitted
    /\ out.success
    /\ rootPos = Pos(FALSE, MovesTo(<<DGuard(TRUE)>>))

(***************************************************************************)
(* C2: a root move with a mate score s >= VALUE_MATE_IN_MAX_PLY, set by    *)
(* the alpha/beta search or by the tablebase walker, has a PV of exactly   *)
(* VALUE_MATE - s moves, and playing the PV from the root ends in a        *)
(* position where the side to move is checkmated.                          *)
(***************************************************************************)
PvIsMateLine(rm) ==
    /\ Len(rm.pv) = VALUE_MATE - rm.score
    /\ IsCheckmate(Play(rootPos, rm.pv))

C2_PvIsMate ==
    \A t \in Pool : \A i \in 1..Len(rootMoves[t]) :
        rootMoves[t][i].score >= VALUE_MATE_IN_MAX_PLY
            => PvIsMateLine(rootMoves[t][i])

(***************************************************************************)
(* C3: for every go mate N, whenever Success is reported the announced     *)
(* mate distance (VALUE_MATE - score + 1) / 2 is at most N and the PV has  *)
(* at most 2N - 1 plies, whichever path produced the score.                *)
(***************************************************************************)
C3_WithinLimit ==
    (Emitted /\ out.success)
        => /\ out.mateIn <= Limits.mate
           /\ Len(out.pv) <= 2 * Limits.mate - 1

(***************************************************************************)
(* C4: for mate = 1 on a root outside the tablebases, and with no stop     *)
(* from the user or from a limit, a root move holds the score              *)
(* VALUE_MATE - 1 only if it checkmates, Success is reported iff the root  *)
(* has a mating move, and no worker leaves the iteration rootDepth = 1.    *)
(***************************************************************************)
RootHasMatingMove ==
    \E i \in 1..Len(rootPos.moves) : IsCheckmate(rootPos.moves[i].to)

C4_MateInOne ==
    (Emitted /\ Limits.mate = 1 /\ ~rootPos.tb /\ ~userStop /\ ~limitHit)
        => /\ out.success <=> RootHasMatingMove
           /\ \A t \in Pool : rootDepth[t] = 1
           /\ \A t \in Pool : \A i \in 1..Len(rootMoves[t]) :
                  rootMoves[t][i].score = VALUE_MATE - 1
                      => IsCheckmate(MoveById(rootPos, rootMoves[t][i].pv[1]).to)

(***************************************************************************)
(* C5: alpha/beta completeness.  With one worker, no node or movetime      *)
(* limit, no user stop, the caps disabled (KingMoves = 8, AllMoves = 250)  *)
(* and no tablebases, go mate N on a root with a forced checkmate within   *)
(* N moves reports Success; Failure is reported only when there is none.   *)
(***************************************************************************)
RECURSIVE TbFree(_)
TbFree(pos) ==
    /\ ~pos.tb
    /\ pos.wdl = "fail"
    /\ \A i \in 1..Len(pos.moves) : TbFree(pos.moves[i].to)

CompleteSetting ==
    /\ Options.Threads = 1
    /\ Options.KingMoves = 8
    /\ Options.AllMoves = 250
    /\ ~Limits.bounded
    /\ ~userStop
    /\ TbFree(rootPos)

C5_Completeness ==
    (Emitted /\ CompleteSetting)
        => (AttackerMates(rootPos, 2 * Limits.mate - 1) => out.success)

\* a mate in two that is no mate in one has been searched and announced
C5_Reached ==
    /\ Emitted
    /\ CompleteSetting
    /\ Limits.mate = 2
    /\ AttackerMates(rootPos, 3)
    /\ ~AttackerMates(rootPos, 1)
    /\ out.success
    /\ out.mateIn = 2

(***************************************************************************)
(* C6: once a search has been started, the stop flag is true only because  *)
(* (i) some worker holds a root score >= alpha = VALUE_MATE - 2 * mate,    *)
(* (ii)/(iii) the node or movetime limit was hit, or (iv) the user sent    *)
(* stop or quit; no worker with root moves left to search is stopped for   *)
(* another reason.                                                         *)
(***************************************************************************)
StopCause ==
    \/ \E t \in Pool : bestValue[t] >= AlphaOf(Limits.mate)
    \/ limitHit
    \/ userStop

C6_StopCauses ==
    (mainPc # "boot" /\ stop)
        => (StopCause \/ \A t \in Pool : pc[t] = "done")

(***************************************************************************)
(* The search under fair scheduling: as long as some thread of the engine  *)
(* can take a step, one of them eventually does.  The user and the clock   *)
(* owe nothing.                                                            *)
(***************************************************************************)
WorkerStep(t) ==
    \/ ThreadStart(t)
    \/ t = Main /\ Walker(t)
    \/ NextRootMove(t)
    \/ FinishRootMove(t)
    \/ EndIteration(t)

EngineStep ==
    \/ SearchInit
    \/ MainSearch
    \/ MainStop
    \/ MainEmit
    \/ \E t \in Pool : WorkerStep(t)

\* the roots of the fair runs: no move, a mate in one found by the first or
\* by a later worker, mates in two, no mate, the capped and the bishop-guard
\* defender, and the tablebase walker
FairRoots ==
    {Stale, Mated,
     Pos(FALSE, MovesTo(<<Mated>>)),
     Pos(FALSE, MovesTo(<<Pos(FALSE, MovesTo(<<ANoMate>>)), Mated>>)),
     Pos(FALSE, MovesTo(<<Mated, Pos(FALSE, MovesTo(<<ANoMate>>))>>)),
     Pos(FALSE, MovesTo(<<Pos(FALSE, MovesTo(<<AMate, AQuietMate>>)), Stale>>)),
     Pos(FALSE, MovesTo(<<Pos(TRUE, MovesTo(<<AMate>>))>>)),
     Pos(FALSE, MovesTo(<<Pos(TRUE, MovesTo(<<ANoMate>>)),
                          Pos(FALSE, MovesTo(<<AInCheck>>))>>)),
     Pos(FALSE, MovesTo(<<DGuard(TRUE)>>)),
     Pos(FALSE, MovesTo(<<DKing>>)),
     TbPos(FALSE, TRUE, <<TbMv(1, 1000, TbD(TbA1Late))>>),
     TbPos(FALSE, TRUE, <<TbMv(1, 1000, TbD(TbA1)), TbMv(2, 1000, TbMated)>>)}

FairInit == Init /\ rootPos \in FairRoots

FairSpec == FairInit /\ [][Next]_vars /\ WF_vars(EngineStep)

(***************************************************************************)
(* C7: a worker whose bestValue has reached alpha after a root move has    *)
(* raised the stop flag and examines no further root move; with the flag   *)
(* raised, a worker leaves its root-move loop when the root move in        *)
(* progress returns; a search() call entered with the flag raised returns  *)
(* 0 without making a move; and so every worker eventually finishes.       *)
(***************************************************************************)
FoundStops ==
    \A t \in Pool :
        bestValue[t] >= AlphaOf(Limits.mate) => stop /\ pc[t] = "done"

StoppedCallReturnsZero ==
    \A t \in Pool :
        (pc[t] = "insearch" /\ entryStop[t])
            => \A fuel \in Fuels(t) :
                   /\ RootSearch(t, fuel).v = VALUE_ZERO
                   /\ RootSearch(t, fuel).nodes = 0

LeavesLoopWhenStopped ==
    \A t \in Pool :
        (stop /\ pc[t] = "insearch" /\ pc'[t] # "insearch") => pc'[t] = "done"

Searching == mainPc \in {"searching", "joining"}

C7_StopEndsSearch ==
    /\ [](FoundStops /\ StoppedCallReturnsZero)
    /\ [][LeavesLoopWhenStopped]_vars
    /\ (Searching /\ stop) ~> (\A t \in Pool : pc[t] = "done")

\* a second worker was in the middle of a root move when the flag went up,
\* and has left its loop
C7_Reached ==
    /\ Options.Threads = 2
    /\ stop
    /\ bestValue[0] >= AlphaOf(Limits.mate)
    /\ pvIdx[1] < Len(rootMoves[1])
    /\ pc[1] = "done"
    /\ bestValue[1] < AlphaOf(Limits.mate)

(***************************************************************************)
(* C8 (as stated): bestmove is emitted only after the stop flag is true    *)
(* and every non-main worker has finished searching.                       *)
(***************************************************************************)
OthersFinished == \A t \in Pool \ {Main} : pc[t] \in {"idle", "done"}

NonEmpty == {t \in Pool : rootMoves[t] # <<>>}

TopScore ==
    CHOOSE v \in {rootMoves[t][1].score : t \in NonEmpty} :
        \A t \in NonEmpty : rootMoves[t][1].score <= v

FirstBest ==
    CHOOSE t \in NonEmpty :
        /\ rootMoves[t][1].score = TopScore
        /\ \A u \in NonEmpty : rootMoves[u][1].score = TopScore => t <= u

Share(t) ==
    Cardinality({j \in 1..Len(searchMoves) : (j - 1) % Options.Threads = t})

Holders(id) ==
    {<<t, k>> \in Pool \X (1..Len(searchMoves)) :
        k <= Len(rootMoves[t]) /\ rootMoves[t][k].pv[1] = id}

C9_RoundRobin ==
    mainPc = "go" =>
       /\ Len(searchMoves) = LegalCount(rootPos)
       /\ \A t \in Pool :
             /\ Len(rootMoves[t]) = Share(t)
             /\ \A k \in 1..Len(rootMoves[t]) :
                    rootMoves[t][k] = searchMoves[t + 1 + (k - 1) * Options.Threads]
       /\ \A i \in 1..Len(rootPos.moves) :
             Cardinality(Holders(rootPos.moves[i].id)) = 1
       /\ \A t, u \in Pool : Len(rootMoves[t]) - Len(rootMoves[u]) <= 1
       /\ LegalCount(rootPos) = 0 => \A t \in Pool : rootMoves[t] = <<>>

\* three root moves dealt to two threads: the first thread holds two
C9_Reached ==
    /\ mainPc = "go"
    /\ Options.Threads = 2
    /\ Len(searchMoves) = 3
    /\ Len(rootMoves[0]) = 2
    /\ Len(rootMoves[1]) = 1

(***************************************************************************)
(* C10: root moves are ordered by score, descending, with ties broken by   *)
(* tbRank, descending; so after the sort in Search::init, where all scores *)
(* are equal, the root-move list is in non-increasing tbRank order, and so *)
(* is each worker's share.                                                 *)
(***************************************************************************)
ByRank(rms) ==
    \A i, j \in 1..Len(rms) : i < j => rms[i].tbRank >= rms[j].tbRank

C10_RankOrder ==
    mainPc = "go" => (ByRank(searchMoves) /\ \A t \in Pool : ByRank(rootMoves[t]))

(***************************************************************************)
(* C11: when the main worker has no root move to search, the depth-0       *)
(* report carries score mate 0 if the side to move is in check and score   *)
(* cp 0 otherwise, the best move is printed as (none), and no worker and   *)
(* no search has been started.                                             *)
(***************************************************************************)
NothingStarted ==
    /\ \A t \in Pool : pc[t] = "idle" /\ rootDepth[t] = 1 /\ pvIdx[t] = 0
    /\ \A t \in Pool : rootMoves[t] = <<>>

DepthZeroReport ==
    out.info = (IF rootPos.chk THEN <<"mate", 0>> ELSE <<"cp", 0>>)

C11_NoRootMove ==
    (mainPc = "done" /\ LegalCount(rootPos) = 0)
        => /\ out.kind = "bestmove" /\ out.depth0
           /\ DepthZeroReport
           /\ out.text = "(none)"
           /\ NothingStarted

\* what the code prints instead
C11_NullMove ==
    (mainPc = "done" /\ LegalCount(rootPos) = 0)
        => /\ out.kind = "bestmove" /\ out.depth0
           /\ DepthZeroReport
           /\ out.text = "0000"
           /\ NothingStarted

C11_Reached ==
    /\ mainPc = "done"
    /\ rootPos = Mated
    /\ out.info = <<"mate", 0>>

(***************************************************************************)
(* The command loop (UCI::loop) and its handlers position, setoption and   *)
(* go.  A command line is the tuple of its tokens.                         *)
(***************************************************************************)
\* most tokens that follow the command word of a line
MaxTokens == 4

Numerals == {"-1", "0", "2"}

\* operator>>(int&) on a token that is a number
IntOf(token) == IF token = "-1" THEN -1 ELSE IF token = "0" THEN 0 ELSE 2

\* the positions the loop can hold: the one of StartFEN, the one of the FEN
\* "f1", and what their moves lead to
StartPos == Pos(FALSE, MovesTo(<<DOpen, Pos(FALSE, MovesTo(<<AMate>>))>>))

FenPos == Pos(FALSE, MovesTo(<<Mated>>))

\* Position::set: the position of a FEN (a FEN is the tuple of its fields)
PositionSet(fen) == IF fen = <<"f1">> THEN FenPos ELSE StartPos

\* UCI::to_move: the legal move whose coordinate notation is str
to_move(pos, str) ==
    LET hits == {i \in 1..Len(pos.moves) : UCI_move(pos.moves[i].id) = str}
    IN IF hits = {} THEN MOVE_NONE
       ELSE pos.moves[CHOOSE i \in hits : \A j \in hits : i <= j].id

\* position(): the move list, played until the first token that is no legal
\* move; [pos, states]
RECURSIVE ParseMoves(_, _, _, _)
ParseMoves(pos, n, toks, i) ==
    IF i > Len(toks) THEN [pos |-> pos, states |-> n]
    ELSE LET m == to_move(pos, toks[i])
         IN IF m = MOVE_NONE THEN [pos |-> pos, states |-> n]
            ELSE ParseMoves(MoveById(pos, m).to, n + 1, toks, i + 1)

\* index of the first "moves" token at or after i, Len(toks) + 1 if none
RECURSIVE FenEnd(_, _)
FenEnd(toks, i) ==
    IF i > Len(toks) \/ toks[i] = "moves" THEN i ELSE FenEnd(toks, i + 1)

\* Search::LimitsType()
NewLimits ==
    [searchmoves |-> <<>>, mate |-> 0, nodes |-> 0, movetime |-> 0, perft |-> 0,
     infinite |-> 0]

\* go(): the token loop from token i on.  An int field read at the end of
\* the line keeps its value and ends the loop; one read from a token that is
\* no number becomes 0 and ends the loop, the stream having failed.
RECURSIVE GoTokens(_, _, _, _)
GoTokens(pos, toks, i, limits) ==
    IF i > Len(toks) THEN limits
    ELSE LET token == toks[i]
             field == IF token = "depth" THEN "mate" ELSE token
         IN IF token = "searchmoves"
            THEN [limits EXCEPT !.searchmoves =
                     @ \o [k \in 1..(Len(toks) - i) |-> to_move(pos, toks[i + k])]]
            ELSE IF token \in {"depth", "mate", "nodes", "movetime", "perft"}
            THEN IF i = Len(toks) THEN limits
                 ELSE IF toks[i + 1] \in Numerals
                 THEN GoTokens(pos, toks, i + 2,
                               [limits EXCEPT ![field] = IntOf(toks[i + 1])])
                 ELSE [limits EXCEPT ![field] = 0]
            ELSE IF token = "infinite"
            THEN GoTokens(pos, toks, i + 1, [limits EXCEPT !.infinite = 1])
            ELSE GoTokens(pos, toks, i + 1, limits)

MateWarning ==
    <<"info string Infinite analysis or game playing mode not supported!",
      "Please set a depth or mate limit.">>

\* the lines the loop reads
GoWords == {"depth", "mate", "infinite", "searchmoves", "0", "2", "-1", "m1"}

PositionWords == {"startpos", "fen", "moves", "f1", "m1", "m2"}

SetoptionWords == {"name", "value", "Threads", "Foo", "2", "true"}

OtherLines == {<<"isready">>, <<"foo">>, <<"foo", "bar">>, <<"#", "foo">>, <<>>,
               <<"stop">>}

Lines ==
    {<<"go">> \o t : t \in {<<>>} \cup SeqsUpTo(GoWords, MaxTokens - 1)}
    \cup {<<"position">> \o t : t \in {<<>>} \cup SeqsUpTo(PositionWords, MaxTokens)}
    \cup {<<"setoption">> \o t : t \in {<<>>} \cup SeqsUpTo(SetoptionWords, MaxTokens)}
    \cup OtherLines

Args == SubSeq(uciCmd, 2, Len(uciCmd))

Command == IF uciCmd = <<>> THEN "" ELSE uciCmd[1]

\* getline(cin, cmd)
ReadLine ==
    /\ uciPc = "read"
    /\ uciCmd' \in Lines
    /\ uciPc' = "run"
    /\ UNCHANGED <<uciPos, uciStates, uciOptions, uciOut, goLimits, stop>>

\* the bottom of the loop: the line and what it printed are done with
LoopEnd ==
    /\ uciPc = "done"
    /\ uciPc' = "read"
    /\ uciCmd' = <<>>
    /\ uciOut' = <<>>
    /\ goLimits' = None
    /\ UNCHANGED <<uciPos, uciStates, uciOptions, stop>>

\* token == "quit" || token == "stop"
StopCommand ==
    /\ uciPc = "run"
    /\ Command = "stop"
    /\ stop' = TRUE
    /\ uciPc' = "done"
    /\ UNCHANGED <<uciPos, uciStates, uciOptions, uciCmd, uciOut, goLimits>>

position ==
    /\ uciPc = "run"
    /\ Command = "position"
    /\ LET token == IF Args = <<>> THEN "" ELSE Args[1]
           end == FenEnd(Args, 2)
           fen == IF token = "startpos" THEN <<"StartFEN">>
                  ELSE SubSeq(Args, 2, end - 1)
           first == IF token = "startpos" THEN 3 ELSE end + 1
           r == ParseMoves(PositionSet(fen), 1, Args, first)
       IN IF token \in {"startpos", "fen"}
          THEN uciPos' = r.pos /\ uciStates' = r.states
          ELSE UNCHANGED <<uciPos, uciStates>>
    /\ uciPc' = "done"
    /\ UNCHANGED <<uciOptions, uciCmd, uciOut, goLimits, stop>>

\* Option::operator= : a spin option takes a value inside its range
OptionAssign(name, value) ==
    IF name = "Threads" /\ value = <<"2">> /\ MaxThreads >= 2 THEN IntOf("2")
    ELSE uciOptions[name]

\* setoption(): the name runs from the second token to "value" or the end
NameEnd(args) ==
    IF args = <<>> THEN 1
    ELSE CHOOSE i \in 2..(Len(args) + 1) :
            /\ i = Len(args) + 1 \/ args[i] = "value"
            /\ \A j \in 2..(i - 1) : args[j] # "value"

OptionName(args) == SubSeq(args, 2, NameEnd(args) - 1)

\* Options.count(name)
OptionsCount(name) == Len(name) = 1 /\ name[1] \in DOMAIN uciOptions

setoption ==
    /\ uciPc = "run"
    /\ Command = "setoption"
    /\ LET name == OptionName(Args)
           value == SubSeq(Args, NameEnd(Args) + 1, Len(Args))
       IN IF OptionsCount(name)
          THEN /\ uciOptions' = [uciOptions EXCEPT
                                    ![name[1]] = OptionAssign(name[1], value)]
               /\ uciOut' = uciOut
          ELSE /\ uciOut' = <<<<"info string No such option:">> \o name>>
               /\ uciOptions' = uciOptions
    /\ uciPc' = "done"
    /\ UNCHANGED <<uciPos, uciStates, uciCmd, goLimits, stop>>

\* a go that leaves the mate limit as it was parsed
MateAsParsed(limits) == limits

\* go(): no mate limit given, "execute a simple mate in 1 search"
MateOrOne(limits) ==
    IF limits.mate = 0 THEN [limits EXCEPT !.mate = 1] ELSE limits

go ==
    /\ uciPc = "run"
    /\ Command = "go"
    /\ LET limits == GoTokens(uciPos, Args, 1, NewLimits)
       IN /\ uciOut' = IF limits.mate = 0 THEN <<MateWarning>> ELSE uciOut
          /\ goLimits' = MateOrOne(limits)
    /\ uciPc' = "done"
    /\ UNCHANGED <<uciPos, uciStates, uciOptions, uciCmd, stop>>

\* isready; a line that is empty or starts with '#'; an unknown command
OtherCommand ==
    /\ uciPc = "run"
    /\ Command \notin {"stop", "position", "setoption", "go"}
    /\ uciOut' = IF Command = "isready" THEN <<<<"readyok">>>>
                 ELSE IF Command \in {"", "#"} THEN <<>>
                 ELSE <<<<"Unknown command:">> \o uciCmd>>
    /\ uciPc' = "done"
    /\ UNCHANGED <<uciPos, uciStates, uciOptions, uciCmd, goLimits, stop>>

\* the search is idle while the loop is looked at on its own
SearchVars ==
    <<rootPos, Limits, Options, RootInTB, rootMoves, rootDepth, targetDepth, pvIdx,
      bestValue, pc, entryStop, mainPc, searchMoves, userStop, limitHit, out,
      pns>>

UciInit ==
    /\ rootPos = StartPos
    /\ Limits = [mate |-> 1, infinite |-> FALSE, bounded |-> FALSE]
    /\ Options = [Threads |-> 1, KingMoves |-> 8, AllMoves |-> 250,
                  ProofNumberSearch |-> FALSE, PnsHash |-> LargeArena]
    /\ RootInTB = FALSE
    /\ stop = FALSE
    /\ rootMoves = [t \in Pool |-> <<>>]
    /\ rootDepth = [t \in Pool |-> 0]
    /\ targetDepth = [t \in Pool |-> 0]
    /\ pvIdx = [t \in Pool |-> 0]
    /\ bestValue = [t \in Pool |-> 0]
    /\ pc = [t \in Pool |-> "idle"]
    /\ entryStop = [t \in Pool |-> FALSE]
    /\ mainPc = "boot"
    /\ searchMoves = <<>>
    /\ userStop = FALSE
    /\ limitHit = FALSE
    /\ out = None
    /\ uciPos = StartPos
    /\ uciStates = 1
    /\ uciOptions = [Threads |-> 1, ProofNumberSearch |-> FALSE]
    /\ uciCmd = <<>>
    /\ uciPc = "read"
    /\ uciOut = <<>>
    /\ goLimits = None
    /\ pns = None
    /\ ranked = None
    /\ tt = None

UciNext ==
    /\ \/ ReadLine
       \/ LoopEnd
       \/ StopCommand
       \/ position
       \/ setoption
       \/ go
       \/ OtherCommand
    /\ UNCHANGED <<SearchVars, tableVars>>

UciSpec == UciInit /\ [][UciNext]_vars

(***************************************************************************)
(* C12: go depth n and go mate n both set the mate limit to n; when the    *)
(* mate limit is 0 after parsing (no depth or mate given, the value 0,     *)
(* plain go infinite) the warning is printed, the limit becomes 1 and the  *)
(* search is started all the same: no go leaves the search with mate = 0.  *)
(***************************************************************************)
GoHandled == uciPc = "done" /\ Command = "go"

C12_MateLimit ==
    GoHandled =>
        /\ goLimits # None
        /\ goLimits.mate # 0
        /\ \A n \in Numerals :
              uciCmd \in {<<"go", "depth", n>>, <<"go", "mate", n>>}
                  => goLimits.mate = (IF IntOf(n) = 0 THEN 1 ELSE IntOf(n))
        /\ uciCmd \in {<<"go">>, <<"go", "infinite">>, <<"go", "mate", "0">>,
                       <<"go", "depth", "0">>}
              => goLimits.mate = 1 /\ uciOut = <<MateWarning>>
        /\ uciOut \in {<<>>, <<MateWarning>>}
        /\ uciOut = <<MateWarning>> => goLimits.mate = 1

C12_Reached ==
    /\ GoHandled
    /\ uciCmd = <<"go", "infinite">>
    /\ goLimits.mate = 1
    /\ goLimits.infinite = 1
    /\ uciOut = <<MateWarning>>

(***************************************************************************)
(* C15: an input error leaves the engine state unchanged and prints        *)
(* exactly one message: setoption with an unknown option name, a position  *)
(* command whose first token is neither startpos nor fen, and an unknown   *)
(* command leave the position, the state list and every option value as    *)
(* they were, and one message is printed.                                  *)
(***************************************************************************)
UnknownOption == Command = "setoption" /\ ~OptionsCount(OptionName(Args))

MalformedPosition ==
    Command = "position" /\ (Args = <<>> \/ Args[1] \notin {"startpos", "fen"})

UnknownCommand ==
    Command \notin {"", "#", "isready", "stop", "position", "setoption", "go"}

Handled == uciPc = "run" /\ uciPc' = "done"

StateKept == UNCHANGED <<uciPos, uciStates, uciOptions>>

C15_InputErrors ==
    [][(Handled /\ (UnknownOption \/ MalformedPosition \/ UnknownCommand))
          => (StateKept /\ Len(uciOut') = 1)]_vars

\* the part that holds: the state is kept, and the two errors that are
\* reported are reported once
C15_StateKept ==
    [][(Handled /\ (UnknownOption \/ MalformedPosition \/ UnknownCommand))
          => /\ StateKept
             /\ Len(uciOut') = (IF MalformedPosition THEN 0 ELSE 1)]_vars

C15_Reached ==
    /\ uciPc = "done"
    /\ MalformedPosition
    /\ uciCmd = <<"position", "moves", "m1">>
    /\ uciOut = <<>>
    /\ uciPos = StartPos

(***************************************************************************)
(* C13: determinism.  Two runs of the same go mate N on the same position  *)
(* with the same options print the same bestmove and the same score,       *)
(* whatever the number of workers and their interleaving.  One run is the  *)
(* schedule that lets the workers search one after the other in pool       *)
(* order, each to its end, before the main thread goes on; every other run *)
(* on the same input must print what that run prints.                      *)
(***************************************************************************)
\* Thread::search of a worker that runs alone from iteration rd, root move
\* idx on: [rms, found]
RECURSIVE SoloSearch(_, _, _, _)
SoloSearch(rms, rd, idx, best) ==
    LET td == TargetDepthOf(Limits.mate)
        ctx == [rootDepth |-> rd, targetDepth |-> td,
                fullDepth |-> FullDepthOf(Limits.mate), mate |-> Limits.mate,
                kingMoves |-> Options.KingMoves, allMoves |-> Options.AllMoves]
    IN IF idx = Len(rms)
       THEN IF rd = td THEN [rms |-> rms, found |-> FALSE]
            ELSE SoloSearch(rms, rd + 2, 0, best)
       ELSE IF RootSkip(rms[idx + 1], FALSE, FALSE, rd, td)
       THEN SoloSearch(rms, rd, idx + 1, best)
       ELSE The({LET rm == rms[idx + 1]
                     value == -r.v
                     improved == value > best
                     updated == [rms EXCEPT ![idx + 1] =
                                    [rm EXCEPT !.score = value,
                                               !.pv = <<rm.pv[1]>> \o r.pv]]
                     new == IF improved THEN SortPrefix(updated, idx + 1) ELSE rms
                 IN IF Max(value, best) >= AlphaOf(Limits.mate)
                    THEN [rms |-> new, found |-> TRUE]
                    ELSE SoloSearch(new, rd, idx + 1, Max(value, best))
                 : r \in {search(MoveById(rootPos, rms[idx + 1].pv[1]).to, 1,
                                 -VALUE_INFINITE, -AlphaOf(Limits.mate), rd - 1,
                                 ctx, NoStop)}})

\* the workers one after the other: the lists they end with.  A worker that
\* starts with the stop flag set leaves its list as it got it.
RECURSIVE InTurn(_, _, _)
InTurn(lists, t, stopped) ==
    IF t = Options.Threads THEN lists
    ELSE IF stopped THEN InTurn(lists, t + 1, TRUE)
    ELSE The({InTurn([lists EXCEPT ![t] = r.rms], t + 1, r.found)
              : r \in {SoloSearch(lists[t], 1, 0, VALUE_MATE_IN_MAX_PLY - 1)}})

\* what MainThread::search prints after that run: <<bestmove, score>>
InTurnResult ==
    LET lists == InTurn(Distribute(searchMoves, Options.Threads), 0, FALSE)
        pick[i \in 0..(Options.Threads - 1)] ==
            LET prev == IF i = 0 THEN Main ELSE pick[i - 1]
            IN IF lists[i] # <<>> /\ lists[i][1].score > lists[prev][1].score
               THEN i ELSE prev
        rm == lists[pick[Options.Threads - 1]][1]
    IN <<rm.pv[1], rm.score>>

SameRun == Emitted /\ ~rootPos.tb /\ ~userStop /\ ~limitHit

C13_Deterministic == SameRun => <<out.move, out.score>> = InTurnResult

\* the run in turn is one of the runs: two workers, the second one's move
\* mates and is printed
C13_Reached ==
    /\ SameRun
    /\ Options.Threads = 2
    /\ <<out.move, out.score>> = InTurnResult
    /\ out.thread = 1
    /\ out.success


(***************************************************************************)
(* The Proof-Number Search as a state machine: one action per step of the  *)
(* main loop of pn_search.                                                 *)
(***************************************************************************)
InPns(step) == mainPc = "pns" /\ pns.pc = step

\* the loop condition holds: Step 1, selection
PnsSelect ==
    /\ InPns("select")
    /\ ~stop
    /\ \E m \in {Selection(pns)} :
         pns' = [m EXCEPT !.pc = IF m.ub THEN "ub" ELSE "expand"]
    /\ UNCHANGED <<tableVars, uciVars, rootPos, Limits, Options, RootInTB, stop, rootMoves,
                   rootDepth, targetDepth, pvIdx, bestValue, pc, entryStop, mainPc,
                   searchMoves, userStop, limitHit, out>>

\* Steps 2 and 3, expansion and evaluation of the children
PnsExpand ==
    /\ InPns("expand")
    /\ \E legalMoves \in {score_and_rank_moves(pns.path[pns.ply + 1], pns.ply)} :
       \E m \in {Expansion([pns EXCEPT !.allocs = <<>>, !.firstMove = TRUE,
                                        !.movecount = 0, !.broke = FALSE],
                            rootMoves[Main], legalMoves, 1, Len(legalMoves))} :
          /\ pns' = [m EXCEPT !.pc = IF m.overrun THEN "ub" ELSE "backprop"]
          /\ stop' = (stop \/ m.outOfMemory)
    /\ UNCHANGED <<tableVars, uciVars, rootPos, Limits, Options, RootInTB, rootMoves, rootDepth,
                   targetDepth, pvIdx, bestValue, pc, entryStop, mainPc,
                   searchMoves, userStop, limitHit, out>>

\* a stop test that looks at the proof number only
RootProvenOnly(table) == Cell(table, rootNode).pn = 0

\* the first stop condition: the root is proven or disproven
RootResolved(table) ==
    Cell(table, rootNode).pn = 0 \/ Cell(table, rootNode).dn = 0

\* std::find meets no root move that starts with the move it is given
FindFails(m, rms, stopped) ==
    \/ m.updatePV /\ FindRootMove(rms, m.pv[1][1]) = 0
    \/ /\ stopped
       /\ Cell(m.table, rootNode).pn = 0
       /\ FindRootMove(rms, Cell(m.table, ProvenRootChild(m.table)).move) = 0

\* Step 4, backpropagation, and the end of the iteration: the PV goes to its
\* root move, the stop conditions are tested (reached: the node or time limit
\* is), and the root moves are scored and sorted.  The periodic output sorts
\* the root moves too, but before the root is proven all scores are equal.
PnsBackpropagate ==
    /\ InPns("backprop")
    /\ \E reached \in (IF Limits.bounded THEN BOOLEAN ELSE {FALSE}) :
       \E m \in {Backpropagation(pns)} :
         LET resolved == RootResolved(m.table)
             stopped == stop \/ resolved \/ reached
             rms == AttachPV(m, rootMoves[Main])
         IN IF m.ub
            THEN /\ pns' = [m EXCEPT !.pc = "ub"]
                 /\ UNCHANGED <<stop, limitHit, rootMoves>>
            ELSE /\ pns' = [m EXCEPT
                              !.pc = IF FindFails(m, rootMoves[Main], stopped)
                                     THEN "ub" ELSE "select",
                              !.iteration = @ + 1,
                              !.bestNode = rootNode,
                              !.updatePV = FALSE,
                              !.met = @ \cup
                                  IF /\ stopped
                                     /\ Cell(m.table, rootNode).pn = 0
                                     /\ \E c \in FinalScan(m.table) : InBin(m, c)
                                  THEN {"final"} ELSE {}]
                 /\ stop' = stopped
                 /\ limitHit' = (limitHit \/ (~resolved /\ reached))
                 /\ rootMoves' = [rootMoves EXCEPT ![Main] =
                                    IF stopped THEN ScoreRootMoves(m.table, rms)
                                    ELSE rms]
    /\ UNCHANGED <<tableVars, uciVars, rootPos, Limits, Options, RootInTB, rootDepth,
                   targetDepth, pvIdx, bestValue, pc, entryStop, mainPc,
                   searchMoves, userStop, out>>

\* the loop condition fails: pn_search returns to MainThread::search, which
\* started no other worker
PnsReturn ==
    /\ InPns("select")
    /\ stop
    /\ pns' = [pns EXCEPT !.pc = "returned"]
    /\ mainPc' = "searching"
    /\ pc' = [t \in Pool |-> "done"]
    /\ UNCHANGED <<tableVars, uciVars, rootPos, Limits, Options, RootInTB, stop, rootMoves,
                   rootDepth, targetDepth, pvIdx, bestValue, entryStop,
                   searchMoves, userStop, limitHit, out>>

\* the attacker mates in two more moves
AMateIn2 == Pos(FALSE, MovesTo(<<Pos(FALSE, MovesTo(<<AMate>>))>>))

\* defenders that lose in one, in two, or in one or two moves of the attacker
DeepDefenders ==
    {Pos(FALSE, MovesTo(<<AMate>>)), Pos(FALSE, MovesTo(<<AMateIn2>>)),
     Pos(FALSE, MovesTo(<<AMate, AMateIn2>>)), Pos(FALSE, MovesTo(<<ANoMate>>))}

\* a defender with seven replies; after each the attacker mates in two
\* whatever the three replies to its one move
DThree == Pos(FALSE, MovesTo(<<AMate, AMate, AMate>>))

DSeven == Pos(FALSE, [i \in 1..7 |-> Mv(i, 0, 0, Pos(FALSE, MovesTo(<<DThree>>)))])

\* a defender whose one reply leaves the attacker five stalemating moves
DStuck ==
    Pos(FALSE, MovesTo(<<Pos(FALSE, MovesTo(<<Stale, Stale, Stale, Stale, Stale>>))>>))

\* the attacker has a move that mates in two and a second move that does not
AOneOfTwo == Pos(FALSE, MovesTo(<<Pos(FALSE, MovesTo(<<AMate>>)), DOpen>>))

\* roots whose trees resolve more than RecycleFrom nodes before they end, and
\* a root whose proof leaves an open node two levels below the root child
RecyclingRoots ==
    {Pos(FALSE, MovesTo(<<DSeven>>)), Pos(FALSE, MovesTo(<<DStuck, DStuck, DSeven>>)),
     Pos(FALSE, MovesTo(<<Pos(FALSE, MovesTo(<<AOneOfTwo>>))>>))}

\* a root with more legal moves than the small arena has nodes
WideRoot == Pos(FALSE, [i \in 1..(SmallArena + 1) |-> Mv(i, 0, 0, DOpen)])

\* roots whose first AND child, or first OR child, the tablebases know
Verdicts == {"loss", "blessed_loss", "draw", "cursed_win", "win"}

VerdictRoots ==
    {Pos(FALSE, MovesTo(<<[Pos(FALSE, MovesTo(<<AMate>>)) EXCEPT !.wdl = w]>>)) :
        w \in Verdicts}
    \cup {Pos(FALSE, MovesTo(<<Pos(FALSE, MovesTo(<<[AMate EXCEPT !.wdl = w]>>))>>)) :
             w \in Verdicts}

\* in the small arena the expansion of the first defender raises the stop
\* at its first child and leaves its loop at the second, a stalemate
TightRoot == Pos(FALSE, MovesTo(<<Pos(FALSE, MovesTo(<<ANoMate, Stale>>)), DOpen>>))

PnsRoots ==
    PlainRoots \cup {Pos(FALSE, MovesTo(t)) : t \in SeqsUpTo(DeepDefenders, 2)}
    \cup RecyclingRoots \cup VerdictRoots \cup {WideRoot, TightRoot}

\* the roots that are run under every combination of limits and options
PnsCoreRoots ==
    {r \in PnsRoots : LegalCount(r) <= 1} \cup {TightRoot}
    \cup {Pos(FALSE, MovesTo(<<Pos(FALSE, MovesTo(<<AMate, AMateIn2>>)),
                               Pos(FALSE, MovesTo(<<ANoMate>>))>>))}

PnsLimitsSet ==
    {[mate |-> m, infinite |-> l[1], bounded |-> l[2]] :
        m \in 1..PnsMaxMate,
        l \in {<<FALSE, FALSE>>, <<TRUE, FALSE>>, <<FALSE, TRUE>>}}

PnsOptionsSet ==
    {[Threads |-> n, KingMoves |-> k, AllMoves |-> 250,
      ProofNumberSearch |-> TRUE, PnsHash |-> a] :
        n \in 1..MaxThreads, k \in {8, 1}, a \in {SmallArena, LargeArena}}

PnsDefaults(l, o) ==
    ~l.infinite /\ ~l.bounded /\ o.KingMoves = 8 /\ o.PnsHash = LargeArena

\* the wide root is run in the small arena
PnsSmall(l, o) ==
    ~l.infinite /\ ~l.bounded /\ o.KingMoves = 8 /\ o.PnsHash = SmallArena

PnsInit ==
    /\ rootPos \in PnsRoots
    /\ Limits \in PnsLimitsSet
    /\ Options \in PnsOptionsSet
    /\ \/ rootPos \in PnsCoreRoots
       \/ rootPos # WideRoot /\ PnsDefaults(Limits, Options)
       \/ rootPos = WideRoot /\ PnsSmall(Limits, Options) /\ Limits.mate > 1
    /\ RootInTB = FALSE
    /\ stop = FALSE
    /\ rootMoves = [t \in Pool |-> <<>>]
    /\ rootDepth = [t \in Pool |-> 0]
    /\ targetDepth = [t \in Pool |-> 0]
    /\ pvIdx = [t \in Pool |-> 0]
    /\ bestValue = [t \in Pool |-> 0]
    /\ pc = [t \in Pool |-> "idle"]
    /\ entryStop = [t \in Pool |-> FALSE]
    /\ mainPc = "boot"
    /\ searchMoves = <<>>
    /\ userStop = FALSE
    /\ limitHit = FALSE
    /\ out = None
    /\ UciWaiting
    /\ pns = None
    /\ ranked = None
    /\ tt = None

PnsNext ==
    \/ SearchInit
    \/ MainSearch
    \/ PnsSelect
    \/ PnsExpand
    \/ PnsBackpropagate
    \/ PnsReturn
    \/ MainStop
    \/ MainEmit
    \/ UserStop

PnsSpec == PnsInit /\ [][PnsNext]_vars


(***************************************************************************)
(* C14: with KingMoves = 8 and AllMoves = 250 the cap tests are false at   *)
(* every position below the root, at every ply, in the alpha/beta search   *)
(* and in the Proof-Number Search; the tests are the only reads of the two *)
(* options, so both searches run as if the tests were not there.           *)
(***************************************************************************)
\* the positions below pos, each with its ply
RECURSIVE Below(_, _)
Below(pos, ply) ==
    {<<pos, ply>>}
    \cup UNION {Below(pos.moves[i].to, ply + 1) : i \in 1..Len(pos.moves)}

CapsDisabled == Options.KingMoves = 8 /\ Options.AllMoves = 250

IterationEnded ==
    /\ pns # None
    /\ pns.pc \in {"select", "returned"}
    /\ pns.iteration > 0

RootNumbers == Cell(pns.table, rootNode)

RECURSIVE ProofBelow(_, _, _)
ProofBelow(n, pos, ply) ==
    LET kids == Children(pns.table, n)
        Kid(k) == Cell(pns.table, kids[k])
    IN /\ ply <= pns.targetDepth
       /\ IF ply % 2 = 1 /\ kids = <<>>
          THEN IsCheckmate(pos)
          ELSE IF ply % 2 = 0
          THEN /\ \E k \in 1..Len(kids) : Kid(k).pn = 0
               /\ \A k \in 1..Len(kids) :
                    Kid(k).pn = 0 =>
                        /\ Legal(pos, Kid(k).move)
                        /\ ProofBelow(kids[k], MoveById(pos, Kid(k).move).to,
                                      ply + 1)
          ELSE /\ \A i \in 1..Len(pos.moves) :
                    \E k \in 1..Len(kids) : Kid(k).move = pos.moves[i].id
               /\ \A k \in 1..Len(kids) :
                    /\ Legal(pos, Kid(k).move)
                    /\ ProofBelow(kids[k], MoveById(pos, Kid(k).move).to,
                                  ply + 1)

C16_PnsSound ==
    (IterationEnded /\ RootNumbers.pn = 0) =>
        /\ ProofBelow(rootNode, rootPos, 0)
        /\ AttackerMates(rootPos, pns.targetDepth)

\* the proof as far as the arena still holds it: below a node whose children
\* were recycled the position itself has to be lost for the defender
RECURSIVE ProofKept(_, _, _)
ProofKept(n, pos, ply) ==
    LET kids == Children(pns.table, n)
        Kid(k) == Cell(pns.table, kids[k])
        left == pns.targetDepth - ply
    IN /\ ply <= pns.targetDepth
       /\ IF Strangers(pns, n) # {}
          THEN IF ply % 2 = 0 THEN AttackerMates(pos, left)
                              ELSE DefenderLost(pos, left)
          ELSE IF ply % 2 = 1 /\ kids = <<>>
          THEN IsCheckmate(pos)
          ELSE IF ply % 2 = 0
          THEN /\ \E k \in 1..Len(kids) : Kid(k).pn = 0
               /\ \A k \in 1..Len(kids) :
                    Kid(k).pn = 0 =>
                        /\ Legal(pos, Kid(k).move)
                        /\ ProofKept(kids[k], MoveById(pos, Kid(k).move).to,
                                     ply + 1)
          ELSE /\ \A i \in 1..Len(pos.moves) :
                    \E k \in 1..Len(kids) : Kid(k).move = pos.moves[i].id
               /\ \A k \in 1..Len(kids) :
                    /\ Legal(pos, Kid(k).move)
                    /\ ProofKept(kids[k], MoveById(pos, Kid(k).move).to,
                                 ply + 1)

\* C16 as it holds: with the root's pn at 0 at the end of an iteration the
\* root has a child with pn == 0 and the side to move has a forced checkmate
\* within targetDepth plies; the paths through children with pn == 0 (OR
\* nodes) and all children (AND nodes) end in a checkmated defender at ply
\* <= targetDepth as far as the nodes on them were not recycled
C16_ForcedMate ==
    (IterationEnded /\ RootNumbers.pn = 0) =>
        /\ ProofKept(rootNode, rootPos, 0)
        /\ Strangers(pns, rootNode) \subseteq
              {c \in DOMAIN pns.table : InBin(pns, c) /\ Cell(pns.owner, c) = rootNode}
        /\ \E k \in 1..Len(Children(pns.table, rootNode)) :
              Cell(pns.table, Children(pns.table, rootNode)[k]).pn = 0
        /\ AttackerMates(rootPos, pns.targetDepth)

\* a mate in three, proven at go mate 3
C16_Reached ==
    /\ IterationEnded
    /\ RootNumbers.pn = 0
    /\ pns.pc = "returned"
    /\ Limits.mate = 3
    /\ rootPos = Pos(FALSE, MovesTo(<<Pos(FALSE, MovesTo(<<AMateIn2>>))>>))


(***************************************************************************)
(* C17: when PNS has stopped with the root proven, the best root move is   *)
(* the move of a root child with pn == 0, its PV played from the root ends *)
(* in a checkmated position and runs through proven nodes only, and its    *)
(* score is VALUE_MATE - len(PV); so for every mate distance up to the     *)
(* requested one.                                                          *)
(***************************************************************************)
PnsProven ==
    /\ pns # None
    /\ pns.pc = "returned"
    /\ RootNumbers.pn = 0

BestRootMove == rootMoves[Main][1]

\* the node reached from node n along line (NullNode if the tree has no such
\* path)
RECURSIVE NodeAt(_, _)
NodeAt(n, line) ==
    IF line = <<>> \/ n = NullNode THEN n
    ELSE LET kids == Children(pns.table, n)
             hits == {k \in 1..Len(kids) : Cell(pns.table, kids[k]).move = Head(line)}
         IN IF hits = {} THEN NullNode
            ELSE NodeAt(kids[CHOOSE k \in hits : TRUE], Tail(line))

ProofLine(pv) ==
    \A l \in 1..Len(pv) :
        /\ NodeAt(rootNode, SubSeq(pv, 1, l)) # NullNode
        /\ Cell(pns.table, NodeAt(rootNode, SubSeq(pv, 1, l))).pn = 0

C17_ProvenRoot ==
    PnsProven =>
        /\ ProofLine(<<BestRootMove.pv[1]>>)
        /\ IsCheckmate(Play(rootPos, BestRootMove.pv))
        /\ ProofLine(BestRootMove.pv)
        /\ BestRootMove.score = VALUE_MATE - Len(BestRootMove.pv)

\* what holds whatever the distance of the proof: the best root move is proven
\* and its score is VALUE_MATE - len(PV)
C17_ProvenMove ==
    PnsProven =>
        /\ ProofLine(<<BestRootMove.pv[1]>>)
        /\ BestRootMove.score = VALUE_MATE - Len(BestRootMove.pv)

\* what holds when the PV has the full length: it ends in checkmate
C17_FullLength ==
    (PnsProven /\ Len(BestRootMove.pv) = pns.targetDepth) =>
        IsCheckmate(Play(rootPos, BestRootMove.pv))

\* a mate in three proven at go mate 3, with a PV of five moves
C17_Reached ==
    /\ PnsProven
    /\ Limits.mate = 3
    /\ Len(BestRootMove.pv) = 5
    /\ IsCheckmate(Play(rootPos, BestRootMove.pv))
    /\ BestRootMove.score = VALUE_MATE - 5


(***************************************************************************)
(* C18: the main loop of pn_search is left only when the root is proven or *)
(* disproven, the node or time limit is reached, the arena runs out or the *)
(* user stops the search, and it is left at the end of the first iteration *)
(* at which one of these holds; every iteration expands a node that has no *)
(* children yet, is neither proven nor disproven and lies at a ply below   *)
(* targetDepth; and without limits, with an arena that the tree does not   *)
(* fill, the loop is left after finitely many iterations with the root     *)
(* proven or disproven (or because the user stopped it).                   *)
(***************************************************************************)
PnsStep ==
    SearchInit \/ MainSearch \/ PnsSelect \/ PnsExpand \/ PnsBackpropagate
    \/ PnsReturn

\* the roots of the runs in which the main thread is known to keep running
PnsFairRoots ==
    {Pos(FALSE, MovesTo(<<Pos(FALSE, MovesTo(<<AMateIn2>>))>>)),
     Pos(FALSE, MovesTo(<<Pos(FALSE, MovesTo(<<AMate, AMateIn2>>)),
                          Pos(FALSE, MovesTo(<<ANoMate>>))>>)),
     Pos(FALSE, MovesTo(<<Pos(FALSE, MovesTo(<<ANoMate>>)),
                          Pos(FALSE, MovesTo(<<AMate, AMateIn2>>))>>)),
     Pos(FALSE, MovesTo(<<Pos(FALSE, MovesTo(<<AQuietMate, ANoMate>>)), Stale>>)),
     Pos(FALSE, MovesTo(<<Pos(FALSE, MovesTo(<<ANoMate>>)), Stale, Mated>>)),
     Pos(FALSE, MovesTo(<<DKing>>)),
     Pos(FALSE, MovesTo(<<Stale>>))}

PnsFairInit == PnsInit /\ rootPos \in PnsFairRoots

\* the main thread keeps running
PnsFairSpec == PnsFairInit /\ [][PnsNext]_vars /\ WF_vars(PnsStep)

PnsStopCause ==
    \/ RootNumbers.pn = 0
    \/ RootNumbers.dn = 0
    \/ limitHit
    \/ pns.outOfMemory
    \/ userStop

StopsOnCause ==
    /\ (pns # None /\ pns.pc = "returned") => PnsStopCause
    /\ (IterationEnded /\ PnsStopCause) => stop

ExpandsOpenNode ==
    InPns("expand") =>
        /\ Cell(pns.table, pns.currentNode).firstChild = rootNode
        /\ Cell(pns.table, pns.currentNode).pn \in 1..(INFINITE - 1)
        /\ Cell(pns.table, pns.currentNode).dn \in 1..(INFINITE - 1)
        /\ pns.ply < pns.targetDepth

Unlimited ==
    /\ mainPc = "boot"
    /\ LegalCount(rootPos) > 0
    /\ ~Limits.bounded
    /\ Options.PnsHash = LargeArena

PnsFinished ==
    /\ pns # None
    /\ pns.pc = "returned"
    /\ RootNumbers.pn = 0 \/ RootNumbers.dn = 0 \/ userStop

C18_LoopStops ==
    /\ [](StopsOnCause /\ ExpandsOpenNode)
    /\ [](Unlimited => <>PnsFinished)

\* the root is disproven in the third iteration, without limit or user stop
C18_Reached ==
    /\ pns # None
    /\ pns.pc = "returned"
    /\ pns.iteration = 3
    /\ RootNumbers.dn = 0
    /\ ~userStop /\ ~limitHit /\ ~pns.outOfMemory


(***************************************************************************)
(* C19: PNS monotonicity.  As claimed: from one iteration to the next the  *)
(* root's pn does not increase while it is finite, and neither does the    *)
(* root's dn.  What does hold: a number that is resolved stays: a node     *)
(* with pn == 0 or dn == 0 that is not waiting in the recycling bin keeps  *)
(* its pn and dn in every later step.                                      *)
(***************************************************************************)
InLoop == mainPc = "pns" /\ pns.pc \in {"select", "expand", "backprop"}

C19_Monotone ==
    [][(InLoop /\ pns' # None) =>
        LET old == Cell(pns.table, rootNode)
            new == Cell(pns'.table, rootNode)
        IN /\ (old.pn < INFINITE /\ new.pn < INFINITE) => new.pn <= old.pn
           /\ (old.dn < INFINITE /\ new.dn < INFINITE) => new.dn <= old.dn]_vars

Waiting(n) == \E k \in 1..Len(pns.recyclingBin) : pns.recyclingBin[k] = n

C19_ResolvedStay ==
    [][(InLoop /\ pns' # None) =>
        \A n \in DOMAIN pns.table :
            ((pns.table[n].pn = 0 \/ pns.table[n].dn = 0) /\ ~Waiting(n)) =>
                /\ Cell(pns'.table, n).pn = pns.table[n].pn
                /\ Cell(pns'.table, n).dn = pns.table[n].dn]_vars

\* the root's pn has risen from 1 to 3 beside a disproven root child, and the
\* search goes on
C19_Reached ==
    /\ InPns("select")
    /\ ~stop
    /\ pns.iteration >= 2
    /\ RootNumbers.pn = 3
    /\ \E n \in DOMAIN pns.table : n # rootNode /\ pns.table[n].dn = 0


(***************************************************************************)
(* C20: with ProofNumberSearch set, the root of the proof tree gets a      *)
(* child for every legal root move, whatever the Threads option: once the  *)
(* root is expanded and not proven, a legal root move is missing only      *)
(* where the frontier rule skips it (targetDepth = 1 and the move gives no *)
(* check).                                                                 *)
(***************************************************************************)
RootExpanded ==
    /\ IterationEnded
    /\ RootNumbers.pn # 0
    /\ ~pns.outOfMemory

InTree(move) ==
    \E k \in 1..Len(Children(pns.table, rootNode)) :
        Cell(pns.table, Children(pns.table, rootNode)[k]).move = move

C20_AllRootMoves ==
    RootExpanded =>
        \A i \in 1..Len(rootPos.moves) :
            (pns.targetDepth > 1 \/ rootPos.moves[i].chk) =>
                InTree(rootPos.moves[i].id)

\* the same with one thread
C20_OneThread ==
    (RootExpanded /\ Options.Threads = 1) =>
        \A i \in 1..Len(rootPos.moves) :
            (pns.targetDepth > 1 \/ rootPos.moves[i].chk) =>
                InTree(rootPos.moves[i].id)

\* with two threads the root is disproven although the root position has a
\* mate within the limit, and the search reports a failure
C20_Reached ==
    /\ Emitted
    /\ Options.ProofNumberSearch
    /\ Options.Threads = 2
    /\ Options.KingMoves = 8
    /\ Limits.mate = 2
    /\ LegalCount(rootPos) = 2
    /\ ~userStop /\ ~limitHit /\ ~pns.outOfMemory
    /\ RootNumbers.dn = 0
    /\ AttackerMates(rootPos, pns.targetDepth)
    /\ ~out.success


(***************************************************************************)
(* C21: after the backpropagation of an iteration every node on the path   *)
(* that was selected, the root included, holds the numbers computed from   *)
(* its children as they are then: at an OR node (even ply) pn is the least *)
(* pn of the children and dn the sum of their dn, capped at INFINITE; at   *)
(* an AND node (odd ply) pn is the capped sum of the pn and dn the least   *)
(* dn; and every pn and dn in the arena lies in 0..INFINITE.               *)
(***************************************************************************)
\* the nodes from currentNode up to the root, each with its ply
PathNodes(m) ==
    {<<m.currentNode, m.ply>>} \cup {<<m.parentNode[k], k - 1>> : k \in 1..m.ply}

RECURSIVE SumOver(_, _)
SumOver(f, S) ==
    IF S = {} THEN 0
    ELSE LET x == CHOOSE y \in S : TRUE IN f[x] + SumOver(f, S \ {x})

Capped(x) == IF x < INFINITE THEN x ELSE INFINITE

Least(f, S) == CHOOSE v \in {f[x] : x \in S} : \A x \in S : v <= f[x]

FromChildren(table, n, ply) ==
    LET kids == {Children(table, n)[k] : k \in 1..Len(Children(table, n))}
        pns_ == [c \in kids |-> Cell(table, c).pn]
        dns_ == [c \in kids |-> Cell(table, c).dn]
    IN IF ply % 2 = 0
       THEN [pn |-> Least(pns_, kids), dn |-> Capped(SumOver(dns_, kids))]
       ELSE [pn |-> Capped(SumOver(pns_, kids)), dn |-> Least(dns_, kids)]

InRange(table) ==
    \A n \in DOMAIN table :
        table[n].pn \in 0..INFINITE /\ table[n].dn \in 0..INFINITE

C21_PathRecomputed ==
    [][(PnsBackpropagate /\ ~pns'.ub) =>
          /\ \A e \in PathNodes(pns) :
                LET now == Cell(pns'.table, e[1])
                    rule == FromChildren(pns'.table, e[1], e[2])
                IN now.pn = rule.pn /\ now.dn = rule.dn
          /\ InRange(pns'.table)]_vars

\* an iteration that went three plies down has ended, and the arena holds a
\* node whose pn is the capped sum of a finite and an infinite pn
C21_Reached ==
    /\ IterationEnded
    /\ \E n \in DOMAIN pns.table :
          /\ Cell(pns.owner, n) # rootNode
          /\ Cell(pns.owner, Cell(pns.owner, n)) # rootNode
    /\ \E n \in DOMAIN pns.table \ {rootNode} :
          /\ pns.table[n].pn = INFINITE
          /\ \E k \in 1..Len(Children(pns.table, n)) :
                LET c == Children(pns.table, n)[k]
                IN /\ Cell(pns.owner, c) = n
                   /\ Cell(pns.table, c).pn \in 1..(INFINITE - 1)


(***************************************************************************)
(* C22: the numbers of a node at its creation.  In this order: no legal    *)
(* move and in check gives (0, INFINITE) at an AND child and (INFINITE, 0) *)
(* at an OR child; no legal move and not in check (INFINITE, 0); an AND    *)
(* child with more king moves than kingMoves (kingMoves < 8), or an OR     *)
(* child whose side to move has a bare king, (INFINITE, 0); a draw or      *)
(* ply == targetDepth (INFINITE, 0); a tablebase loss (WDLLoss,            *)
(* WDLBlessedLoss) at an OR child, win (WDLWin, WDLCursedWin) at an AND    *)
(* child, or draw (INFINITE, 0); every other child with n legal replies    *)
(* (1 + n, 1) at an AND child and (1, 1 + n) at an OR child.  So every     *)
(* child created at ply == targetDepth is resolved.                        *)
(***************************************************************************)
Lost == [pn |-> INFINITE, dn |-> 0]

Won == [pn |-> 0, dn |-> INFINITE]

InitialNumbers(pos, ply) ==
    LET n == LegalCount(pos)
        and == ply % 2 = 1
    IN CASE n = 0 /\ pos.chk -> IF and THEN Won ELSE Lost
         [] n = 0 /\ ~pos.chk -> Lost
         [] n > 0 /\ and /\ pns.kingMoves < 8 /\ KingMoveCount(pos) > pns.kingMoves
              -> Lost
         [] n > 0 /\ ~and /\ pos.bare -> Lost
         [] n > 0 /\ (pos.draw \/ ply = pns.targetDepth) -> Lost
         [] n > 0 /\ ~and /\ pos.wdl \in {"loss", "blessed_loss"} -> Lost
         [] n > 0 /\ and /\ pos.wdl \in {"win", "cursed_win"} -> Lost
         [] n > 0 /\ pos.wdl = "draw" -> Lost
         [] OTHER -> IF and THEN [pn |-> 1 + n, dn |-> 1]
                            ELSE [pn |-> 1, dn |-> 1 + n]

\* the nodes written by the expansion that has just ended
Created == {pns.allocs[k].slot : k \in 1..Len(pns.allocs)}

C22_InitialNumbers ==
    InPns("backprop") =>
        \A c \in Created :
            LET node == Cell(pns.table, c)
                pos == MoveById(pns.path[pns.ply + 1], node.move).to
                rule == InitialNumbers(pos, pns.ply + 1)
            IN /\ Legal(pns.path[pns.ply + 1], node.move)
               /\ node.pn = rule.pn /\ node.dn = rule.dn
               /\ pns.ply + 1 = pns.targetDepth =>
                     node \in {[node EXCEPT !.pn = 0, !.dn = INFINITE],
                               [node EXCEPT !.pn = INFINITE, !.dn = 0]}

\* an OR child that the tablebases call a blessed loss was created
C22_Reached ==
    /\ InPns("backprop")
    /\ \E c \in Created :
          /\ pns.ply + 1 = 2
          /\ MoveById(pns.path[pns.ply + 1], Cell(pns.table, c).move).to.wdl
                = "blessed_loss"
          /\ Cell(pns.table, c).dn = 0


(***************************************************************************)
(* C23: selection.  Each step of the descent goes to a child whose pn (at  *)
(* an OR node) or dn (at an AND node) is the least among all children of   *)
(* the node it leaves; the early exit at a child whose number equals the   *)
(* parent's never takes a child that is not a minimum.  The descent ends   *)
(* at a node without children that is not resolved, at a ply below         *)
(* targetDepth: that is the node the expansion then works on.              *)
(***************************************************************************)
\* the node at ply k of the path that was selected
OnPath(k) == IF k = pns.ply THEN pns.currentNode ELSE pns.parentNode[k + 1]

LeastChild(parent, child, ply) ==
    LET kids == Children(pns.table, parent)
        key(n) == IF ply % 2 = 1 THEN Cell(pns.table, n).dn
                                 ELSE Cell(pns.table, n).pn
    IN /\ \E k \in 1..Len(kids) : kids[k] = child
       /\ \A k \in 1..Len(kids) : key(child) <= key(kids[k])

C23_MostProving ==
    InPns("expand") =>
        /\ \A k \in 0..(pns.ply - 1) : LeastChild(OnPath(k), OnPath(k + 1), k)
        /\ OnPath(0) = rootNode
        /\ Cell(pns.table, pns.currentNode).firstChild = rootNode
        /\ Cell(pns.table, pns.currentNode).pn \in 1..(INFINITE - 1)
        /\ Cell(pns.table, pns.currentNode).dn \in 1..(INFINITE - 1)
        /\ pns.ply < pns.targetDepth

\* a descent of two steps that left a node by the early exit: the child
\* taken is not the last of the list
C23_Reached ==
    /\ InPns("expand")
    /\ pns.ply >= 2
    /\ \E k \in 0..(pns.ply - 1) :
          /\ Len(Children(pns.table, OnPath(k))) >= 2
          /\ Cell(pns.table, OnPath(k + 1)).nextSibling # rootNode


(***************************************************************************)
(* C24: allocation.  A new child is written into the oldest node of the    *)
(* recycling bin exactly when the bin holds at least 40 nodes at that      *)
(* moment, and then nextNode does not move; otherwise it is written at     *)
(* nextNode, which then advances by one.  The root (slot 0) is never       *)
(* handed out, and nextNode never hands out a slot that was written        *)
(* before.                                                                 *)
(***************************************************************************)
AfterExpansion == mainPc = "pns" /\ pns.pc \in {"backprop", "ub"}

C24_Allocation ==
    AfterExpansion =>
        \A k \in 1..Len(pns.allocs) :
            LET a == pns.allocs[k]
            IN /\ a.recycling <=> Len(a.bin) >= 40
               /\ a.recycling =>
                     /\ a.slot = a.bin[1]
                     /\ a.after = a.nextNode
                     /\ \A j \in 1..Len(pns.recyclingBin) :
                           pns.recyclingBin[j] # a.slot
               /\ ~a.recycling =>
                     /\ a.slot = a.nextNode
                     /\ a.after = a.nextNode + 1
                     /\ a.fresh
               /\ a.slot # rootNode
               /\ k < Len(pns.allocs) =>
                     /\ pns.allocs[k + 1].nextNode = a.after
                     /\ pns.allocs[k + 1].bin =
                           IF a.recycling THEN Tail(a.bin) ELSE a.bin

\* an expansion took a node from a bin of 40 and its next node from nextNode
C24_Reached ==
    /\ InPns("backprop")
    /\ \E k \in 1..(Len(pns.allocs) - 1) :
          /\ pns.allocs[k].recycling
          /\ Len(pns.allocs[k].bin) = 40
          /\ ~pns.allocs[k + 1].recycling


(***************************************************************************)
(* C25: pn_search never writes a node outside its arena: every slot that   *)
(* is written lies in 1..nodeCount - 1, whatever the size of the arena and *)
(* the number of children of an expansion; after nextNode has passed       *)
(* nodeCount - 100 with fewer than 100 nodes in the bin, stop is raised    *)
(* and the allocations up to the end of the loop stay inside the arena.    *)
(***************************************************************************)
C25_InArena ==
    mainPc = "pns" =>
        /\ \A n \in DOMAIN pns.table : n \in 0..(pns.nodeCount - 1)
        /\ \A k \in 1..Len(pns.allocs) :
              pns.allocs[k].slot \in 1..(pns.nodeCount - 1)

\* the stop is raised when nextNode has passed nodeCount - 100 after a child
\* was written and the bin holds fewer than 100 nodes
C25_StopRaised ==
    ((InPns("backprop") \/ InPns("select")) /\ ~stop) =>
        ~(pns.nextNode > pns.nodeCount - 100 /\ Len(pns.recyclingBin) < 100
          /\ ~pns.broke /\ pns.allocs # <<>>)

\* an expansion in the small arena raised the stop and stayed inside
C25_Reached ==
    /\ InPns("backprop")
    /\ pns.outOfMemory
    /\ stop
    /\ \A n \in DOMAIN pns.table : n < pns.nodeCount


(***************************************************************************)
(* C26: recycling.  The backpropagation pushes only resolved children of   *)
(* the node it updates (disproven ones at an AND node, proven ones at an   *)
(* OR node), each with the whole subtree below it; a node is recycled only *)
(* when the update marks its parent resolved; and the complete subtree of  *)
(* a recycled child is returned to the bin.                                *)
(***************************************************************************)
\* the children of n that were written under n and not again since
OwnChildren(n) ==
    {c \in {Children(pns.table, n)[k] : k \in 1..Len(Children(pns.table, n))} :
        Cell(pns.owner, c) = n}

RECURSIVE Subtree(_, _)
Subtree(n, left) ==
    IF left = 0 THEN {}
    ELSE OwnChildren(n) \cup UNION {Subtree(c, left - 1) : c \in OwnChildren(n)}

\* a node waits in the bin: every node below it waits there too
C26_WholeSubtree ==
    (mainPc = "pns" /\ pns.pc \in {"select", "expand", "backprop"}) =>
        \A k \in 1..Len(pns.recyclingBin) :
            \A d \in Subtree(pns.recyclingBin[k], pns.targetDepth) :
                InBin(pns, d)

IsResolved(node) ==
    \/ node.pn = 0 /\ node.dn = INFINITE
    \/ node.pn = INFINITE /\ node.dn = 0

\* what holds of the claim: the nodes that a backpropagation pushes are
\* resolved, and so is the node under which each of them was written
C26_OnlyResolved ==
    [][(PnsBackpropagate /\ ~pns'.ub) =>
          /\ Len(pns'.recyclingBin) >= Len(pns.recyclingBin)
          /\ \A k \in (Len(pns.recyclingBin) + 1)..Len(pns'.recyclingBin) :
                LET n == pns'.recyclingBin[k]
                IN /\ IsResolved(Cell(pns'.table, n))
                   /\ IsResolved(Cell(pns'.table, Cell(pns'.owner, n)))]_vars

\* a resolved child with children of its own went to the bin
C26_Reached ==
    /\ InPns("select")
    /\ \E k \in 1..Len(pns.recyclingBin) : OwnChildren(pns.recyclingBin[k]) # {}


(***************************************************************************)
(* C27: no use after recycling.  Once a node was pushed to the bin (and    *)
(* perhaps written again), no walk along firstChild / nextSibling reaches  *)
(* it through the node it was written under: not the selection, not the    *)
(* child scan of the backpropagation, not the recycling walk, not the      *)
(* final scan of the root's children; and no node is in the bin twice, so  *)
(* no slot holds two nodes of the tree.                                    *)
(***************************************************************************)
NoTwice ==
    \A i, j \in 1..Len(pns.recyclingBin) :
        i # j => pns.recyclingBin[i] # pns.recyclingBin[j]

C27_NeverReached ==
    mainPc = "pns" => (pns.met = {} /\ NoTwice)

\* C27 as it holds: the selection, the child scan and the recycling walk
\* never meet a node of the bin or a node written again under another node,
\* and no node is in the bin twice.  The final scan meets the proven root
\* child that the last backpropagation pushed; that node is still in the
\* bin, so its slot has not been written since.
C27_NoStaleWalk ==
    mainPc = "pns" =>
        /\ pns.met \subseteq {"final"}
        /\ NoTwice
        /\ ~InBin(pns, rootNode)
        /\ "final" \in pns.met =>
              /\ stop
              /\ \A c \in Strangers(pns, rootNode) :
                    InBin(pns, c) /\ Cell(pns.owner, c) = rootNode

\* slots were written again, the old list of a resolved node now leads into
\* them, and the search goes on
C27_Reached ==
    /\ IterationEnded
    /\ pns.pc = "select"
    /\ ~stop
    /\ \E n \in DOMAIN pns.table :
          \E c \in Strangers(pns, n) : ~InBin(pns, c)


(***************************************************************************)
(* C28: after every iteration each node of the tree has pn == 0 exactly    *)
(* when dn == INFINITE and dn == 0 exactly when pn == INFINITE; no node    *)
(* has pn == 0 and dn == 0 together, and none a number above INFINITE.     *)
(***************************************************************************)
C28_ResolvedPairs ==
    IterationEnded =>
        \A n \in DOMAIN pns.table :
            LET node == pns.table[n]
            IN /\ node.pn = 0 <=> node.dn = INFINITE
               /\ node.dn = 0 <=> node.pn = INFINITE
               /\ ~(node.pn = 0 /\ node.dn = 0)
               /\ node.pn <= INFINITE /\ node.dn <= INFINITE

\* a proven and a disproven node that got their numbers from their children
C28_Reached ==
    /\ IterationEnded
    /\ \E n, k \in DOMAIN pns.table :
          /\ pns.table[n].pn = 0 /\ pns.table[n].firstChild # rootNode
          /\ pns.table[k].dn = 0 /\ pns.table[k].firstChild # rootNode
          /\ Len(Children(pns.table, k)) >= 2


(***************************************************************************)
(* C29: at the end of every iteration currentNode is the root, the stack   *)
(* is at ply 0 and the position is the root position again: the two        *)
(* assertions after the backpropagation never fail, also when the          *)
(* expansion left its loop early or raised the stop.                       *)
(***************************************************************************)
C29_BackAtRoot ==
    [][(PnsBackpropagate /\ ~pns.ub) =>
          /\ pns'.currentNode = rootNode
          /\ pns'.ply = 0
          /\ pns'.path = <<rootPos>>
          /\ ~pns'.ub]_vars

\* an iteration has ended whose expansion, below the root, raised the stop
\* and then left its loop at a resolved child
C29_Reached ==
    /\ IterationEnded
    /\ pns.currentNode = rootNode /\ pns.ply = 0 /\ pns.path = <<rootPos>>
    /\ pns.outOfMemory
    /\ pns.broke
    /\ \E k \in 1..Len(pns.allocs) :
          Cell(pns.owner, pns.allocs[k].slot) # rootNode


(***************************************************************************)
(* The window and the value of search().  UCI::go reads the number after   *)
(* "mate" (and after "depth") into Limits.mate and replaces only a limit   *)
(* of 0, so a negative limit reaches Thread::search as it was typed.       *)
(***************************************************************************)
\* the limits of "go mate -1"
NegativeMate == [mate |-> 0 - 1, infinite |-> FALSE, bounded |-> FALSE]

\* Init with the limits UCI::go can leave in Limits
AnyMateInit ==
    /\ rootPos \in Roots
    /\ Limits \in LimitsSet \cup {NegativeMate}
    /\ Options \in OptionsSet
    /\ (rootPos \in CoreRoots /\ Limits.mate > 0) \/ Defaults(Limits, Options)
    /\ RootInTB = FALSE
    /\ stop \in BOOLEAN
    /\ rootMoves = [t \in Pool |-> <<>>]
    /\ rootDepth = [t \in Pool |-> 0]
    /\ targetDepth = [t \in Pool |-> 0]
    /\ pvIdx = [t \in Pool |-> 0]
    /\ bestValue = [t \in Pool |-> 0]
    /\ pc = [t \in Pool |-> "idle"]
    /\ entryStop = [t \in Pool |-> FALSE]
    /\ mainPc = "boot"
    /\ searchMoves = <<>>
    /\ userStop = FALSE
    /\ limitHit = FALSE
    /\ out = None
    /\ UciWaiting
    /\ pns = None
    /\ ranked = None
    /\ tt = None

AnyMateSpec == AnyMateInit /\ [][Next]_vars

\* the root call of thread t that is returning
Returning(t) == {RootSearch(t, fuel) : fuel \in Fuels(t)}

\* C30: every call of search() meets the assertions at its entry
\* (-VALUE_INFINITE <= alpha < beta <= VALUE_INFINITE, ply > 0) and the
\* assertion before it returns bestValue, and returns a value in
\* [-VALUE_INFINITE, VALUE_INFINITE), whatever the mate limit is
C30_Asserts ==
    \A t \in Pool :
        pc[t] = "insearch" =>
            \A r \in Returning(t) : ~r.failed /\ ~r.wide /\ ExitHolds(r.v)

\* a root call entered under a negative mate limit, with a window that is
\* not one
C30_Reached ==
    \E t \in Pool :
        /\ pc[t] = "insearch"
        /\ Limits.mate < 0
        /\ ~EntryHolds(1, -VALUE_INFINITE, -AlphaOf(Limits.mate))
        /\ \E r \in Returning(t) : r.failed

\* the same under the mate limits from 1 on: the assertions hold and the
\* values stay in range, in calls at every ply, below extended moves and
\* after alpha was raised
C30_PositiveLimits ==
    \A t \in Pool :
        pc[t] = "insearch" /\ Limits.mate > 0 =>
            \A r \in Returning(t) : ~r.failed /\ ~r.wide /\ ExitHolds(r.v)


(***************************************************************************)
(* Long lines: mate limits above MaxMate on roots whose lines are as long  *)
(* as the limit.  The extensions of search() need a target depth of 5, its *)
(* skips at lower iterations one of 7 to 11, the rank bands of the root    *)
(* filter one of 9 to 11.                                                  *)
(***************************************************************************)
\* a defender with one reply, in check or not
DReply(chk, a) == Pos(chk, MovesTo(<<a>>))

\* attacker to move, k moves from the end of the line.  In generation order:
\* a quiet move that gives up squares near the own king (rank below 0), a
\* quiet move to a square from which the piece can check, a capture of a
\* pawn, a quiet move with geometry terms worth 2500, a move that stalemates
\* and a check; the line goes on behind the check, and behind the quiet move
\* too when quietToo.
RECURSIVE Graded(_, _, _)
Graded(k, bottom, quietToo) ==
    IF k = 0 THEN bottom
    ELSE LET on == Graded(k - 1, bottom, quietToo)
             off == DReply(FALSE, ANoMate)
         IN Pos(FALSE,
                <<Mv(1, 0, 0 - 50, off),
                  [Mv(2, 0, 100, IF quietToo THEN DReply(FALSE, on) ELSE off)
                      EXCEPT !.reach = TRUE],
                  Mv(3, 1, 0, off),
                  Mv(4, 0, 2500, off),
                  Mv(5, 0, 0, Stale),
                  Mv(6, 0, 0, DReply(TRUE, on))>>)

\* attacker to move, one line: mate in k moves, by checks or by quiet moves
RECURSIVE Forced(_, _)
Forced(k, chk) ==
    IF k = 1 THEN AMate
    ELSE Pos(FALSE, MovesTo(<<DReply(chk, Forced(k - 1, chk))>>))

\* attacker to move, k moves from the mate, with a move for every band of
\* the skips.  In generation order: quiet moves of rank -50, 1500 and 2500,
\* a check that leads nowhere (rank 7992) and a contact check (rank 8492).
\* The line goes on behind the contact check, but behind the quiet move of
\* rank 2500 when k = quietAt, so that no chain of check extensions finds
\* the mate in the first iterations.
RECURSIVE Banded(_, _)
Banded(k, quietAt) ==
    IF k = 1 THEN AMate
    ELSE LET off == DReply(FALSE, ANoMate)
             on == Banded(k - 1, quietAt)
         IN Pos(FALSE,
                <<Mv(1, 0, 0 - 50, off),
                  Mv(2, 0, 1500, off),
                  Mv(3, 0, 2500, IF k = quietAt THEN DReply(FALSE, on) ELSE off),
                  Mv(4, 0, 0, DReply(TRUE, ANoMate)),
                  Mv(5, 0, 500, DReply(TRUE, IF k = quietAt THEN ANoMate ELSE on))>>)

\* a root in the tablebases that is no basic mate: a move the tablebases
\* call a draw, and a winning move with a line of checks behind it
TbDeep ==
    TbPos(FALSE, FALSE,
          <<TbMv(1, 0, DReply(FALSE, ANoMate)),
            TbMv(2, 1000, DReply(TRUE, Forced(DeepMate - 1, TRUE)))>>)

\* the defender's first reply, a check, lets the attacker mate; its second
\* reply checkmates the attacker
DefenderMates ==
    Pos(FALSE, MovesTo(<<Pos(FALSE, MovesTo(<<Pos(TRUE, MovesTo(<<Mated>>)), Mated>>))>>))

DeepRoots ==
    {Graded(DeepMate - 1, b, q) : b \in {AMate, ANoMate}, q \in BOOLEAN}
    \cup {Forced(k, c) : k \in 2..DeepMate, c \in BOOLEAN}
    \cup {TbDeep, Banded(DeepMate, DeepMate - 1), DefenderMates}

DeepLimits ==
    {[mate |-> m, infinite |-> FALSE, bounded |-> FALSE] : m \in (MaxMate + 1)..DeepMate}

\* the engine is idle
Idle ==
    /\ RootInTB = FALSE
    /\ stop \in BOOLEAN
    /\ rootMoves = [t \in Pool |-> <<>>]
    /\ rootDepth = [t \in Pool |-> 0]
    /\ targetDepth = [t \in Pool |-> 0]
    /\ pvIdx = [t \in Pool |-> 0]
    /\ bestValue = [t \in Pool |-> 0]
    /\ pc = [t \in Pool |-> "idle"]
    /\ entryStop = [t \in Pool |-> FALSE]
    /\ mainPc = "boot"
    /\ searchMoves = <<>>
    /\ userStop = FALSE
    /\ limitHit = FALSE
    /\ out = None
    /\ UciWaiting
    /\ pns = None

\* the roots of the fair runs under the limits and options of Init, and the
\* long lines under the larger limits (one thread, defaults)
DeepInit ==
    /\ rootPos \in FairRoots \cup DeepRoots
    /\ Limits \in LimitsSet \cup DeepLimits
    /\ Options \in OptionsSet
    /\ \/ /\ rootPos \in FairRoots
          /\ Limits \in LimitsSet
          /\ rootPos \in CoreRoots \/ Defaults(Limits, Options)
       \/ /\ rootPos \in DeepRoots
          /\ Limits \in DeepLimits
          /\ Defaults(Limits, Options)
          /\ Options.Threads = 1
    /\ Idle
    /\ ranked = None
    /\ tt = None

DeepSpec == DeepInit /\ [][Next]_vars

\* the calls of search() below the root call that is returning, and the
\* passes of their move loops
CallsBelow(t) == UNION {r.calls : r \in Returning(t)}

PassesBelow(t) == UNION {r.moves : r \in Returning(t)}

\* the plies to the mate that the mate score v tells
MateDistance(v) == IF v > 0 THEN VALUE_MATE - v ELSE VALUE_MATE + v

IsMateScore(v) == v >= VALUE_MATE_IN_MAX_PLY \/ v <= -VALUE_MATE_IN_MAX_PLY

AtRootMove(t) == pc[t] = "loop" /\ pvIdx[t] < Len(rootMoves[t])

RootMoveSkipped(t) == pc'[t] = "loop" /\ pvIdx'[t] = pvIdx[t] + 1

RootMoveSearched(t) == pc'[t] = "insearch" /\ pvIdx'[t] = pvIdx[t]

\* the rows of the schedule for a move of rank tbRank
TbRows(intb, rd, tbRank) ==
    \/ intb /\ tbRank <= 0
    \/ ~intb /\ rd = 1 /\ tbRank < 5000

BandRows(rd, td, tbRank) ==
    /\ td > 7
    /\ \/ rd < td - 4 /\ tbRank < 8000
       \/ rd < td - 2 /\ tbRank < 4000
       \/ rd < td /\ tbRank < 0

LowPasses(t) ==
    {p \in PassesBelow(t) : /\ p.ply % 2 = 0
                            /\ p.depth > 1
                            /\ p.moveCount > 0
                            /\ targetDepth[t] >= 7}

\* the cutoffs of the root filter, without the test of targetDepth
RootBands(rd, td, rank) ==
    \/ rd < td - 4 /\ rank < 8000
    \/ rd < td - 2 /\ rank < 4000
    \/ rd < td /\ rank < 0

\* the cutoffs the move loop of search() applies
SearchBands(rd, td, rank) ==
    /\ rd > 3
    /\ \/ rd < td - 4 /\ rank < 6000
       \/ rd < td - 2 /\ rank < 2000
       \/ rd < td /\ rank < 0

\* C33 as claimed: at attacker nodes with depth > 1, targetDepth >= 7 and a
\* move already tried, a move is skipped by the cutoffs of the root filter
\* (rank < 8000, rank < 4000, rank < 0 by iteration band)
C33_RootCutoffs ==
    \A t \in Pool :
        pc[t] = "insearch" =>
            \A p \in LowPasses(t) :
                p.act = "low" <=> RootBands(rootDepth[t], targetDepth[t], p.rank)

\* C33: at attacker nodes with depth > 1, targetDepth >= 7 and a move
\* already tried, a move is skipped exactly when rootDepth > 3 and its rank
\* is below 6000 (rootDepth < targetDepth - 4), below 2000 (rootDepth <
\* targetDepth - 2) or below 0 (rootDepth < targetDepth); elsewhere the
\* low-iteration skip takes no move
C33_LowIterationSkip ==
    \A t \in Pool :
        pc[t] = "insearch" =>
            /\ \A p \in LowPasses(t) :
                  p.act = "low" <=> SearchBands(rootDepth[t], targetDepth[t], p.rank)
            /\ \A p \in PassesBelow(t) : p.act = "low" => p \in LowPasses(t)

\* in the first band a move of rank 6000..7999 is made and a move of rank
\* 2000..5999 of the same node is skipped; a move of rank 0..1999 is skipped
\* in the first band and made in the second
C33_Reached ==
    \E t \in Pool :
        /\ pc[t] = "insearch"
        /\ rootDepth[t] > 3
        /\ rootDepth[t] < targetDepth[t] - 4
        /\ \E p, q \in LowPasses(t) :
              /\ p.act = "made" /\ p.rank >= 6000 /\ p.rank < 8000
              /\ q.act = "low" /\ q.rank >= 2000 /\ q.rank < 6000
              /\ q.ply = p.ply


(***************************************************************************)
(* The iterations of Thread::search                                        *)
(***************************************************************************)
\* thread t is in the loop over the iterations
Iterating(t) == pc[t] \in {"loop", "insearch"}

\* C34: for every mate limit UCI::go can leave in Limits the iterations run
\* through rootDepth = 1, 3, 5, ... up to targetDepth = 2 * mate - 1:
\* rootDepth is odd and never exceeds targetDepth, so the loop meets its
\* exit test and Movecount[rootDepth] stays inside the array
C34_Iterations ==
    \A t \in Pool :
        Iterating(t) =>
            /\ rootDepth[t] % 2 = 1
            /\ rootDepth[t] <= targetDepth[t]
            /\ rootDepth[t] < MAX_PLY

\* under "go mate -1" a thread has passed two iterations and stands above
\* its target depth
C34_Reached ==
    \E t \in Pool :
        /\ Iterating(t)
        /\ Limits.mate < 0
        /\ targetDepth[t] < 0
        /\ rootDepth[t] >= 5

\* the same under the mate limits from 1 on
C34_PositiveLimits ==
    \A t \in Pool :
        Iterating(t) /\ Limits.mate > 0 =>
            /\ rootDepth[t] % 2 = 1
            /\ rootDepth[t] <= targetDepth[t]
            /\ rootDepth[t] < MAX_PLY


(***************************************************************************)
(* The early break of the move loop                                        *)
(***************************************************************************)
\* a value that tells a mate within the limit, for the side to move
WithinLimit(v) == v > VALUE_MATE - 2 * Limits.mate

\* C35: the break on bestValue > VALUE_MATE - 2 * mate is taken at
\* attacker nodes (even ply) only; a defender node whose move returns such a
\* value leaves by the beta cutoff and never ends its loop with it
C35_BreakAtAttacker ==
    \A t \in Pool :
        pc[t] = "insearch" =>
            \A c \in CallsBelow(t) :
                /\ c.exit = "break" => c.ply % 2 = 0 /\ WithinLimit(c.v)
                /\ (c.ply % 2 = 1 /\ c.moveCount > 0 /\ WithinLimit(c.v))
                      => c.exit = "cutoff"

\* below one root call an attacker node breaks on a mate within the limit,
\* and a defender node gets such a value from a move that checkmates the
\* attacker
C35_Reached ==
    \E t \in Pool :
        /\ pc[t] = "insearch"
        /\ \E c, d \in CallsBelow(t) :
              /\ c.exit = "break" /\ c.ply % 2 = 0
              /\ d.ply % 2 = 1 /\ d.exit = "cutoff" /\ WithinLimit(d.v)


(***************************************************************************)
(* Nodes that tried no move                                                *)
(***************************************************************************)
\* the calls whose move loop ended without a move made
NoMoveTried(t) == {c \in CallsBelow(t) : c.exit = "end" /\ c.moveCount = 0}

\* C36: a node that tried no move is checkmate or stalemate: it has no
\* legal move, returns mated_in(ply) only when in check and VALUE_DRAW only
\* when not in check
C36_MateOrStalemate ==
    \A t \in Pool :
        pc[t] = "insearch" =>
            \A c \in NoMoveTried(t) :
                /\ c.legal = 0
                /\ c.v = (IF c.chk THEN mated_in(c.ply) ELSE VALUE_DRAW)

\* a frontier node of the attacker, in check, with a legal move that gives
\* no check: the move is skipped and the node returns mated_in(ply)
C36_Reached ==
    \E t \in Pool :
        /\ pc[t] = "insearch"
        /\ \E c \in NoMoveTried(t) :
              /\ c.depth = 1
              /\ c.chk
              /\ c.legal > 0
              /\ c.v = mated_in(c.ply)

\* above the frontier the first move of a node is always made: a node with
\* depth > 1 that tried no move has none
C36_AboveFrontier ==
    \A t \in Pool :
        pc[t] = "insearch" =>
            \A c \in NoMoveTried(t) :
                c.depth > 1 =>
                    /\ c.legal = 0
                    /\ c.v = (IF c.chk THEN mated_in(c.ply) ELSE VALUE_DRAW)


(***************************************************************************)
(* The root moves of a go with searchmoves                                 *)
(***************************************************************************)
\* Search::init: the legal moves that are in Limits.searchmoves, all of
\* them when the list is empty
InitSearchMoves(pos, searchmoves) ==
    SelectSeq(pos.moves,
              LAMBDA m : \/ searchmoves = <<>>
                         \/ \E k \in 1..Len(searchmoves) : searchmoves[k] = m.id)

\* the root moves Search::init deals to the main thread
MainRootMoves(pos, searchmoves, threads) ==
    LET found == [pos EXCEPT !.moves = InitSearchMoves(pos, searchmoves)]
    IN Distribute(stable_sort(RankedRootMoves(found)), threads)[Main]

\* MainThread::search, "Special case 2: no move(s) to search", for the
\* limits go has parsed
NoMoveToSearch ==
    /\ goLimits # None
    /\ MainRootMoves(uciPos, goLimits.searchmoves, uciOptions.Threads) = <<>>

\* C37: for every go, with or without searchmoves, the main thread's
\* root-move list is empty, and the branch "no move to search" taken, only
\* when the position has no legal move
C37_OnlyMateOrStalemate == NoMoveToSearch => LegalCount(uciPos) = 0

\* a go whose searchmoves name no legal move of a position that has legal
\* moves: the main thread gets no root move
C37_Reached ==
    /\ NoMoveToSearch
    /\ goLimits.searchmoves # <<>>
    /\ LegalCount(uciPos) > 0

\* without searchmoves the branch is taken exactly on the positions without
\* a legal move
C37_NoSearchmoves ==
    (goLimits # None /\ goLimits.searchmoves = <<>>)
        => (NoMoveToSearch <=> LegalCount(uciPos) = 0)


(***************************************************************************)
(* score_and_rank_moves, term by term.  A move is given by what the ranker *)
(* reads of it:                                                            *)
(*   ply       the ply of the node (odd: the side to get mated)            *)
(*   chk       pos.gives_check(m)                                          *)
(*   victim    type of the captured piece (index of MVV), 0 = no capture   *)
(*   piece     type_of(pos.moved_piece(m))                                 *)
(*   inCheck   pos.checkers() is not empty                                 *)
(*   aligned   aligned(lsb(b1), ourKing, to_sq(m))                         *)
(*   onLine    PseudoAttacks[piece][theirKing] & to_sq(m)                  *)
(*   dTheir    distance(to_sq(m), theirKing)                               *)
(*   oppMoves  MoveList<LEGAL>(pos).size() after the move                  *)
(*   advanced  pos.advanced_pawn_push(m)                                   *)
(*   fewHeavy  pos.count<QUEEN>(us) == 0 && pos.count<ROOK>(us) <= 1       *)
(*   freeing   the move leaves the square in front of an own pawn on the   *)
(*             seventh rank                                                *)
(*   reach     attacks_from<piece>(to_sq(m)) & check_squares(piece)        *)
(*   ring      popcount(PseudoAttacks[piece][to_sq(m)] & kingRing)         *)
(*   ownLine   to_sq(m) is on a bishop line or a rook line of ourKing      *)
(*   dOwn      distance(ourKing, to_sq(m))                                 *)
(***************************************************************************)
\* most legal moves a chess position has
MaxReplies == 218

\* largest distance of two squares
MaxDistance == 7

\* squares next to a king
MaxRing == 8

\* "Give an extra boost for mating moves!", with twice the penalty per reply
ReplyBoostDouble(oppMoves) == IF oppMoves = 0 THEN 4096 ELSE -16 * oppMoves

\* "Give an extra boost for mating moves!"
ReplyBoost(oppMoves) == IF oppMoves = 0 THEN 4096 ELSE -8 * oppMoves

\* rank after the first two tests: check and capture
RankBase(f) == (IF f.chk THEN 8000 ELSE 0) + MvvOf(f.victim)

\* the branch of the side to get mated
RankDefender(f) ==
    LET r1 == RankBase(f)
              + (IF ~f.inCheck THEN 0
                 ELSE IF f.victim > 0 THEN 1000
                 ELSE IF f.piece # "KING" /\ f.aligned THEN 400
                 ELSE 0)
    IN r1 + (IF f.piece = "BISHOP" /\ f.onLine /\ r1 < 6000 THEN 200
             ELSE IF f.piece = "ROOK" /\ f.onLine /\ r1 < 6000 THEN 300
             ELSE IF f.piece = "QUEEN" /\ f.onLine /\ r1 < 6000 THEN 350
             ELSE 0)

\* the branch of the mating side
RankAttacker(f) ==
    LET r0 == RankBase(f)
        r1 == IF r0 >= 6000
              THEN r0 + (IF f.piece = "KNIGHT" THEN 400
                         ELSE IF f.piece \in {"QUEEN", "ROOK"} /\ f.dTheir = 1 THEN 500
                         ELSE 0)
                      + ReplyBoost(f.oppMoves)
              ELSE r0
        r2 == r1 + (IF f.advanced THEN 1000 ELSE 0)
        r3 == r2 + (IF f.piece = "KING" /\ f.fewHeavy THEN 480 - 20 * f.dTheir ELSE 0)
        r4 == r3 + (IF f.freeing THEN 500 ELSE 0)
        r5 == r4 + (IF f.piece = "KNIGHT"
                    THEN (IF f.reach THEN 600 ELSE 0) + 256 * f.ring
                    ELSE IF f.piece = "QUEEN"
                    THEN (IF f.reach THEN 500 ELSE 0) + 128 * f.ring
                    ELSE IF f.piece = "ROOK"
                    THEN (IF f.reach THEN 400 ELSE 0) + 96 * f.ring
                    ELSE IF f.piece = "BISHOP"
                    THEN (IF f.reach THEN 300 ELSE 0) + 64 * f.ring
                    ELSE 0)
        r6 == r5 + (IF f.ownLine = "bishop" THEN 128 - 32 * f.dOwn ELSE 0)
    IN r6 + (IF f.ownLine = "rook" THEN 128 - 32 * f.dOwn ELSE 0)

rankThisMove(f) == IF f.ply % 2 = 1 THEN RankDefender(f) ELSE RankAttacker(f)

PieceTypes == {"PAWN", "KNIGHT", "BISHOP", "ROOK", "QUEEN", "KING"}

\* what the branch of the other side reads is left at its default
DefenderMoves ==
    {[ply |-> 1, chk |-> c, victim |-> v, piece |-> p, inCheck |-> i,
      aligned |-> a, onLine |-> o, dTheir |-> 1, oppMoves |-> 1,
      advanced |-> FALSE, fewHeavy |-> FALSE, freeing |-> FALSE, reach |-> FALSE,
      ring |-> 0, ownLine |-> "none", dOwn |-> 1] :
        c \in BOOLEAN, v \in {0, 1, 5}, p \in PieceTypes, i \in BOOLEAN,
        a \in BOOLEAN, o \in BOOLEAN}

\* a move that gives check leaves the opponent 0..MaxReplies moves; only a
\* pawn makes an advanced pawn push; the king ring has 0..MaxRing squares
AttackerMoves ==
    {[ply |-> 2, chk |-> c, victim |-> v, piece |-> p, inCheck |-> FALSE,
      aligned |-> FALSE, onLine |-> FALSE, dTheir |-> g[1], oppMoves |-> n,
      advanced |-> x[1], fewHeavy |-> x[2], freeing |-> x[3], reach |-> x[4],
      ring |-> g[2], ownLine |-> l, dOwn |-> g[3]] :
        c \in BOOLEAN, v \in {0, 5}, p \in PieceTypes,
        g \in {1, MaxDistance} \X {0, MaxRing} \X {1, MaxDistance},
        n \in {0, 1, MaxReplies}, x \in BOOLEAN \X BOOLEAN \X BOOLEAN \X BOOLEAN,
        l \in {"none", "bishop", "rook"}}

RankerMoves ==
    DefenderMoves
    \cup {f \in AttackerMoves : /\ f.chk \/ f.oppMoves = 1
                                /\ f.advanced => f.piece = "PAWN"
                                /\ f.fewHeavy => f.piece = "KING"
                                /\ f.reach => f.piece \notin {"PAWN", "KING"}
                                /\ f.ring > 0 => f.piece \notin {"PAWN", "KING"}
                                /\ f.ownLine = "none" => f.dOwn = 1}

\* the loop body of score_and_rank_moves for the move at hand
RankMove ==
    /\ ranked.kind = "move"
    /\ ranked' = [kind |-> "ranked", move |-> ranked.move,
                  rank |-> rankThisMove(ranked.move)]
    /\ UNCHANGED <<SearchVars, uciVars, stop, tt>>

RankerInit ==
    /\ rootPos = StartPos
    /\ Limits = [mate |-> 1, infinite |-> FALSE, bounded |-> FALSE]
    /\ Options = [Threads |-> 1, KingMoves |-> 8, AllMoves |-> 250,
                  ProofNumberSearch |-> FALSE, PnsHash |-> LargeArena]
    /\ Idle
    /\ stop = FALSE
    /\ ranked \in {[kind |-> "move", move |-> f] : f \in RankerMoves}
    /\ tt = None

RankerSpec == RankerInit /\ [][RankMove]_vars

\* C38: for both ply parities a move's rank is >= 6000 exactly when the
\* move gives check, so a move the frontier skip takes (rank < 6000) gives
\* no check and no checking move is pruned at a frontier node
C38_CheckIffHighRank ==
    ranked.kind = "ranked" =>
        /\ ranked.rank >= 6000 <=> ranked.move.chk
        /\ FrontierSkip(ranked, 1, FALSE) => ~ranked.move.chk

\* a check of the mating side that leaves MaxReplies moves and goes to the
\* far end of a line of the own king: the lowest rank a check gets
C38_Reached ==
    /\ ranked.kind = "ranked"
    /\ ranked.move.ply % 2 = 0
    /\ ranked.move.chk
    /\ ranked.move.oppMoves = MaxReplies
    /\ ranked.move.dOwn = MaxDistance
    /\ ranked.rank < 8000 - 8 * MaxReplies


(***************************************************************************)
(* TranspositionTable: clear, probe and save.  A Key has 64 bits, of which *)
(* the table keeps the upper 32 (key32) in the entry and uses the whole    *)
(* number, modulo the cluster count, to find the cluster.  The model keeps *)
(* the two halves and shortens them: a key is key32 * KeyLow + low with    *)
(* low < KeyLow, where KeyLow stands for 2^32.                             *)
(***************************************************************************)
\* tt.h: entries of a cluster
ClusterSize == 4

\* clusterCount, which resize() sets
ClusterCount == 2

\* number of values of the low half of a key
KeyLow == 4

\* largest upper half of the keys that are saved and probed
MaxKey32 == 5

\* saves that are followed from the table the run starts with
MaxSaves == 2

\* values of a uint16_t
Uint16 == 65536

\* uint16_t(x)
U16(x) == x % Uint16

\* key >> 32
Key32(key) == key \div KeyLow

\* first_entry(): the cluster of a key
first_entry(key) == key % ClusterCount

KeyOf(key32, low) == key32 * KeyLow + low

\* keys with every upper half in the first cluster, and two keys that share
\* cluster and upper half with another one
TtKeys ==
    {KeyOf(h, 0) : h \in 0..MaxKey32}
    \cup {KeyOf(h, ClusterCount) : h \in 0..1}
    \cup {KeyOf(1, 1)}

TtMoves == {1, 2}

\* depths, one of them beyond 16 bits
TtDepths == {1, 2, Uint16 + 1}

NoEntry == [key32 |-> 0, move16 |-> 0, depth16 |-> 0]

\* clear(): every cluster zeroed
Cleared == [c \in 0..(ClusterCount - 1) |-> [i \in 1..ClusterSize |-> NoEntry]]

\* probe(): the first entry of the cluster with the key's upper half, or the
\* first slot and found = false
probe(table, key) ==
    LET tte == table[first_entry(key)]
        hits == {i \in 1..ClusterSize : tte[i].key32 = Key32(key)}
        i == IF hits = {} THEN 1 ELSE CHOOSE h \in hits : \A g \in hits : h <= g
    IN [found |-> hits # {}, slot |-> i, entry |-> tte[i]]

\* save(): the first slot that is empty or holds the key's upper half is
\* written (an existing entry keeps the greater depth); without one the
\* first entry of the lowest depth is replaced
save(table, key, m, d) ==
    LET c == first_entry(key)
        tte == table[c]
        open == {i \in 1..ClusterSize : tte[i].key32 = 0 \/ tte[i].key32 = Key32(key)}
        i == CHOOSE h \in open : \A g \in open : h <= g
        replace == CHOOSE h \in 1..ClusterSize :
                      /\ \A g \in 1..ClusterSize : tte[h].depth16 <= tte[g].depth16
                      /\ \A g \in 1..(h - 1) : tte[g].depth16 > tte[h].depth16
        new == [key32 |-> Key32(key), move16 |-> U16(m), depth16 |-> U16(d)]
    IN IF open = {} THEN [table EXCEPT ![c][replace] = new]
       ELSE IF tte[i].key32 = 0 THEN [table EXCEPT ![c][i] = new]
       ELSE [table EXCEPT ![c][i] =
                [@ EXCEPT !.move16 = U16(m),
                          !.depth16 = IF d > @ THEN U16(d) ELSE @]]

\* the table after four keys with upper halves 1..ClusterSize were saved:
\* their cluster is full
RECURSIVE Filled(_)
Filled(n) ==
    IF n = 0 THEN Cleared
    ELSE save(Filled(n - 1), KeyOf(n, 0), 1 + (n % 2), 1 + ((n + 1) % 2))

TtState(table, saved) ==
    [kind |-> "table", table |-> table, saved |-> saved, saves |-> 0,
     last |-> [op |-> "clear"]]

TtFrame == UNCHANGED <<SearchVars, uciVars, stop, ranked>>

TtClear ==
    /\ tt.table # Cleared
    /\ tt' = TtState(Cleared, {})
    /\ TtFrame

TtSave ==
    /\ tt.saves < MaxSaves
    /\ \E key \in TtKeys, m \in TtMoves, d \in TtDepths :
          tt' = [tt EXCEPT !.table = save(@, key, m, d),
                           !.saved = @ \cup {key},
                           !.saves = @ + 1,
                           !.last = [op |-> "save", key |-> key, m |-> m, d |-> d,
                                     before |-> probe(tt.table, key)]]
    /\ TtFrame

TtProbe ==
    /\ \E key \in TtKeys :
          tt' = [tt EXCEPT !.last = [op |-> "probe", key |-> key,
                                     found |-> probe(tt.table, key).found]]
    /\ TtFrame

TtNext == TtClear \/ TtSave \/ TtProbe

\* the table after resize(), which ends with clear(), or with a cluster
\* that saves have filled
TtInit ==
    /\ rootPos = StartPos
    /\ Limits = [mate |-> 1, infinite |-> FALSE, bounded |-> FALSE]
    /\ Options = [Threads |-> 1, KingMoves |-> 8, AllMoves |-> 250,
                  ProofNumberSearch |-> FALSE, PnsHash |-> LargeArena]
    /\ Idle
    /\ stop = FALSE
    /\ ranked = None
    /\ tt \in {TtState(Cleared, {}),
                TtState(Filled(ClusterSize), {KeyOf(n, 0) : n \in 1..ClusterSize})}

TtSpec == TtInit /\ [][TtNext]_vars

\* the entry probe() gives for the key saved last
AfterSave == probe(tt.table, tt.last.key)

\* another key that was saved shares cluster and upper half with key
Shadowed(key) ==
    \E k \in tt.saved :
        k # key /\ first_entry(k) = first_entry(key) /\ Key32(k) = Key32(key)

\* C39: directly after save(key, m, d) probe(key) finds an entry with move
\* m and a depth >= d that is not below the depth the key had before; and
\* probe(key) finds nothing for a key that was not saved since the last
\* clear()
C39_RoundTrip ==
    /\ tt.last.op = "save" =>
          /\ AfterSave.found
          /\ AfterSave.entry.move16 = tt.last.m
          /\ AfterSave.entry.depth16 >= tt.last.d
          /\ tt.last.before.found =>
                AfterSave.entry.depth16 >= tt.last.before.entry.depth16
    /\ \A key \in TtKeys \ tt.saved : ~probe(tt.table, key).found

\* a key whose upper half is 0 is found in the table that was just cleared
C39_Reached ==
    /\ tt.last.op = "probe"
    /\ tt.saved = {}
    /\ Key32(tt.last.key) = 0
    /\ tt.last.found

\* a key whose upper half is 0 was saved since the last clear()
ZeroSaved == \E k \in tt.saved : Key32(k) = 0

\* what holds: after a save with a depth of 16 bits the key is found with
\* the move and a depth >= d, not lowered as long as no key with the upper
\* half 0 was saved; a key with an upper half other than 0 that was not
\* saved, and no key like it, is not found
C39_WithinWidths ==
    /\ (tt.last.op = "save" /\ tt.last.d < Uint16) =>
          /\ AfterSave.found
          /\ AfterSave.entry.move16 = tt.last.m
          /\ AfterSave.entry.depth16 >= tt.last.d
          /\ (tt.last.before.found /\ ~ZeroSaved) =>
                AfterSave.entry.depth16 >= tt.last.before.entry.depth16
    /\ \A key \in TtKeys \ tt.saved :
          (Key32(key) # 0 /\ ~Shadowed(key)) => ~probe(tt.table, key).found

=============================================================================
